---- MODULE Spec2Model ----
(***************************************************************************)
(* odata-service-writer: generate / remove of an OData service binding     *)
(* against one staged mem-fs editor (packages/odata-service-writer).       *)
(*                                                                         *)
(* The staged editor is the function fs from paths to file contents.  A    *)
(* path is the sequence of its segments ("/ws/app" is <<"", "ws", "app">>, *)
(* a relative path has no leading "").  generate and remove are run step   *)
(* by step (pc), one step per statement group of index.ts, so that the     *)
(* editor's content between two writes of one call is a state.             *)
(***************************************************************************)
EXTENDS Integers, Sequences, FiniteSets, TLC

VARIABLES
    fs,       \* the staged editor: path -> content
    pc,       \* position inside the running call, "idle" between calls
    op,       \* "generate" | "remove" | None : the running (or last) call
    service,  \* the descriptor object of the call (enhanceData mutates it)
    paths,    \* ProjectPaths found by findProjectFiles for the call
    cfg,      \* the call's UI5Config instances: ui5, local, mock
    error,    \* the error the call was rejected with, None if none
    pre,      \* history: fs when the call started
    arg,      \* history: the descriptor as the caller passed it
    last,     \* history: the previous completed call
    iterations, \* history: loop iterations findProjectFiles made for the call
    editor,   \* identity of the editor instance the call works on and returns
    given,    \* whether the caller supplied the editor of the call
    disk,     \* the project on disk, which a new editor reads through to
    calls     \* number of calls started

vars == <<fs, pc, op, service, paths, cfg, error, pre, arg, last, iterations, calls, editor, given, disk>>

\* undefined: as a string, as a path, as an annotations value, as an instance
None == "none"
NoPath == <<>>
NoAnnotations == [defined |-> FALSE, isArray |-> FALSE, items |-> <<>>]
NoInstance == <<>>

\* Number of generate/remove calls one behaviour makes on the shared editor.
MaxCalls == 2

-----------------------------------------------------------------------------
(* Paths                                                                   *)

\* path.join(dir, ...rel) for a dir given as its split parts: parts.join(sep)
\* of <<"">> is the empty string, and join('', 'x') is the relative path 'x'.
join(dir, rel) == IF dir = <<"">> \/ dir = <<>> THEN rel ELSE dir \o rel

\* path.dirname of a file path
dirname(p) == IF Len(p) <= 1 THEN <<>> ELSE SubSeq(p, 1, Len(p) - 1)

\* basePath.split(sep) of the project root the calls are made for
BasePath == <<"", "ws", "app">>

\* getWebappPath(basePath, fs): the default webapp folder of the project
getWebappPath(basePath) == join(basePath, <<"webapp">>)

manifestPath(basePath) == join(getWebappPath(basePath), <<"manifest.json">>)

exists(f, p) == p \in DOMAIN f

\* fs.write / fs.writeJSON
write(f, p, content) == [q \in DOMAIN f \cup {p} |-> IF q = p THEN content ELSE f[q]]

\* fs.delete
delete(f, p) == [q \in DOMAIN f \ {p} |-> f[q]]

\* fs.move: nothing happens when the source does not exist
move(f, from, to) == IF exists(f, from) THEN delete(write(f, to, f[from]), from) ELSE f

\* a function without one key, and with one key set
without(fn, k) == [x \in DOMAIN fn \ {k} |-> fn[x]]
with(fn, k, v) == [x \in DOMAIN fn \cup {k} |-> IF x = k THEN v ELSE fn[x]]

RECURSIVE SeqFilterOut(_, _)
\* s without the elements that are in the set drop, order kept
SeqFilterOut(s, drop) ==
    IF s = <<>> THEN <<>>
    ELSE IF Head(s) \in drop THEN SeqFilterOut(Tail(s), drop)
         ELSE <<Head(s)>> \o SeqFilterOut(Tail(s), drop)

Range(s) == {s[i] : i \in DOMAIN s}

-----------------------------------------------------------------------------
(* Service paths and annotation url paths                                  *)

\* A service path is the sequence '/sap/a'.split('/'): a trailing slash is
\* a last empty segment.
endsWithSlash(p) == Len(p) >= 2 /\ p[Len(p)] = ""

\* path?.endsWith('/') ? path : (path ?? '') + '/'
withTrailingSlash(p) ==
    IF p = NoPath THEN <<"", "">>
    ELSE IF endsWithSlash(p) THEN p ELSE p \o <<"">>

\* the same path without its trailing slash (the form a mock service entry
\* is stored and compared in)
stripSlash(p) == IF endsWithSlash(p) /\ Len(p) > 2 THEN SubSeq(p, 1, Len(p) - 1) ELSE p

\* previewSettings.path: the first segment of the service path, '/' if none
backendPath(p) == IF Len(p) >= 2 /\ p[2] # "" THEN <<"", p[2]>> ELSE <<"", "">>

\* encodeURIComponent on the annotation names of the model: a blank is
\* escaped, every other character of these names is kept
encodeURIComponent(n) == IF n = "AN B" THEN "AN%20B" ELSE n

\* `/sap/opu/odata/IWFND/CATALOGSERVICE;v=2/Annotations(TechnicalName='<n>',Version='0001')/$value/`
annotationUrl(encoded) == <<"", "sap", "opu", "odata", "IWFND", "CATALOGSERVICE;v=2", encoded, "$value", "">>

-----------------------------------------------------------------------------
(* index.ts: file discovery and the required-file check                    *)

NoFiles == [packageJson |-> NoPath, ui5Yaml |-> NoPath, ui5LocalYaml |-> NoPath, ui5MockYaml |-> NoPath]

allFound(files) ==
    /\ files.packageJson # NoPath
    /\ files.ui5Yaml # NoPath
    /\ files.ui5LocalYaml # NoPath
    /\ files.ui5MockYaml # NoPath

\* one probe of the loop body: a match already recorded is kept
probe(f, found, path, name) ==
    IF found = NoPath /\ exists(f, join(path, <<name>>)) THEN join(path, <<name>>) ELSE found

RECURSIVE findLoop(_, _, _)
\* the while loop of findProjectFiles: parts is popped once per iteration
findLoop(f, parts, files) ==
    IF Len(parts) = 0 \/ allFound(files) THEN files
    ELSE findLoop(f, SubSeq(parts, 1, Len(parts) - 1),
                  [packageJson  |-> probe(f, files.packageJson, parts, "package.json"),
                   ui5Yaml      |-> probe(f, files.ui5Yaml, parts, "ui5.yaml"),
                   ui5LocalYaml |-> probe(f, files.ui5LocalYaml, parts, "ui5-local.yaml"),
                   ui5MockYaml  |-> probe(f, files.ui5MockYaml, parts, "ui5-mock.yaml")])

findProjectFiles(basePath, f) == findLoop(f, basePath, NoFiles)

\* mutant: the loop runs until parts is empty, whatever was found
findIterations_noEarlyStop(f, parts, files) == Len(parts)

RECURSIVE findIterations(_, _, _)
\* the number of times the body of the while loop of findProjectFiles runs
findIterations(f, parts, files) ==
    IF Len(parts) = 0 \/ allFound(files) THEN 0
    ELSE 1 + findIterations(f, SubSeq(parts, 1, Len(parts) - 1),
                  [packageJson  |-> probe(f, files.packageJson, parts, "package.json"),
                   ui5Yaml      |-> probe(f, files.ui5Yaml, parts, "ui5.yaml"),
                   ui5LocalYaml |-> probe(f, files.ui5LocalYaml, parts, "ui5-local.yaml"),
                   ui5MockYaml  |-> probe(f, files.ui5MockYaml, parts, "ui5-mock.yaml")])

\* mutant: the list of required files is empty, nothing is checked
ensureExists_noFiles(basePath, f) == None

\* ensureExists(basePath, ['webapp/manifest.json'], fs): the error thrown, or None
ensureExists(basePath, f) ==
    IF exists(f, join(basePath, <<"webapp", "manifest.json">>)) THEN None
    ELSE "requiredProjectFileNotFound"

\* getEDMXAnnotationPaths: one url path per annotation, the technical name
\* URI-encoded.  A descriptor without annotations makes it read
\* `undefined.technicalName`, which throws a TypeError: [err, paths]
getEDMXAnnotationPaths(annotations) ==
    IF ~annotations.defined THEN [err |-> "TypeError", paths |-> <<>>]
    ELSE IF annotations.isArray
         THEN [err |-> None,
               paths |-> [i \in DOMAIN annotations.items |->
                            annotationUrl(encodeURIComponent(annotations.items[i].technicalName))]]
         ELSE [err |-> None,
               paths |-> <<annotationUrl(encodeURIComponent(annotations.items[1].technicalName))>>]

-----------------------------------------------------------------------------
(* @sap-ux/ui5-config: the YAML document model (UI5Config)                 *)
(* A document is [proxy, backend, mock, services, annotations]:            *)
(*   proxy       "ok"     the fiori-tools-proxy middleware block exists    *)
(*               "noNode" no server.customMiddleware node (YAMLError       *)
(*                        nodeNotFound on access)                          *)
(*               "noItem" customMiddleware without fiori-tools-proxy       *)
(*               "bad"    a node of another shape than expected (a         *)
(*                        YAMLError of another code on access)             *)
(*   backend     the proxy's backend list, entries [path, url]             *)
(*   mock        the sap-fe-mockserver middleware block exists             *)
(*   services    its services list, entries [serviceName, servicePath]     *)
(*   annotations its annotations list, entries [urlPath]                   *)

EmptyDoc == [proxy |-> "noNode", backend |-> <<>>, mock |-> FALSE, services |-> <<>>, annotations |-> <<>>]

\* UI5Config.newInstance(fs.read(path)) and ui5Config.toString(): a YAML file
\* holds the serialized document
newInstance(content) == content.doc
toString(doc) == [kind |-> "yaml", doc |-> doc]

RECURSIVE upsertBy(_, _, _)
\* update-or-append: the first entry e with key(e) = key is replaced in
\* place, otherwise the new entry is appended; key is a field name
upsertBy(list, field, entry) ==
    IF list = <<>> THEN <<entry>>
    ELSE IF Head(list)[field] = entry[field] THEN <<entry>> \o Tail(list)
         ELSE <<Head(list)>> \o upsertBy(Tail(list), field, entry)

RECURSIVE removeBy(_, _, _)
\* every entry whose field is in values is deleted, order kept
removeBy(list, field, values) ==
    IF list = <<>> THEN <<>>
    ELSE IF Head(list)[field] \in values THEN removeBy(Tail(list), field, values)
         ELSE <<Head(list)>> \o removeBy(Tail(list), field, values)

\* addBackendToFioriToolsProxydMiddleware: [err, doc]
addBackendToFioriToolsProxydMiddleware(doc, backend) ==
    CASE doc.proxy = "ok"     -> [err |-> None, doc |-> [doc EXCEPT !.backend = upsertBy(@, "path", backend)]]
      [] doc.proxy = "noNode" -> [err |-> "nodeNotFound", doc |-> doc]
      [] doc.proxy = "noItem" -> [err |-> "Could not find fiori-tools-proxy", doc |-> doc]
      [] OTHER                -> [err |-> "yamlError", doc |-> doc]

\* addFioriToolsProxydMiddleware({backend: [backend]})
addFioriToolsProxydMiddleware(doc, backend) ==
    [doc EXCEPT !.proxy = "ok", !.backend = <<backend>>]

\* removeBackendFromFioriToolsProxydMiddleware(url)
removeBackendFromFioriToolsProxydMiddleware(doc, url) ==
    [doc EXCEPT !.backend = removeBy(@, "url", {url})]

\* removeServiceFromMockServerMiddleware(servicePath, annotationPaths)
removeServiceFromMockServerMiddleware(doc, servicePath, annotationPaths) ==
    [doc EXCEPT !.services = removeBy(@, "servicePath", {stripSlash(servicePath)}),
                !.annotations = removeBy(@, "urlPath", Range(annotationPaths))]

\* findCustomMiddleware('sap-fe-mockserver'): the block; found is FALSE when
\* the document has none
findMockserverMiddleware(doc) ==
    [found |-> doc.mock, services |-> doc.services, annotations |-> doc.annotations]

\* updateCustomMiddleware(block) for a sap-fe-mockserver block
updateMockserverMiddleware(doc, block) ==
    [doc EXCEPT !.mock = TRUE, !.services = block.services, !.annotations = block.annotations]

RECURSIVE upsertAll(_, _, _)
upsertAll(list, field, entries) ==
    IF entries = <<>> THEN list
    ELSE upsertAll(upsertBy(list, field, Head(entries)), field, Tail(entries))

\* Mock Middleware Synchronizer upsert(doc, serviceName, servicePath, annotationUrlPaths)
addServiceToMockserverMiddleware(doc, serviceName, servicePath, annotationUrlPaths) ==
    [doc EXCEPT !.mock = TRUE,
                !.services = upsertBy(@, "serviceName",
                                 [serviceName |-> serviceName, servicePath |-> stripSlash(servicePath)]),
                !.annotations = upsertAll(@, "urlPath",
                                 [i \in DOMAIN annotationUrlPaths |-> [urlPath |-> annotationUrlPaths[i]]])]

-----------------------------------------------------------------------------
(* The manifest: [kind, appId, dataSources, models]                        *)
(* dataSources is the ordered table, entries                               *)
(*   [key, type, uri, localUri, annotations]; models maps a model name to  *)
(* the data source it binds.  localUri is relative to the webapp folder.   *)

DEFAULT_DATASOURCE_NAME == "mainService"

Manifest(appId, ds, models) == [kind |-> "manifest", appId |-> appId, dataSources |-> ds, models |-> models]

dsKeys(ds) == {ds[i].key : i \in DOMAIN ds}
dsHas(ds, k) == k \in dsKeys(ds)
dsGet(ds, k) == ds[CHOOSE i \in DOMAIN ds : ds[i].key = k]
dsSet(ds, entry) == upsertBy(ds, "key", entry)
dsDel(ds, k) == removeBy(ds, "key", {k})
oDataKeys(ds) == {ds[i].key : i \in {j \in DOMAIN ds : ds[j].type = "OData"}}

FlatMetadata == <<"localService", "metadata.xml">>
namespacedMetadata(name) == <<"localService", name, "metadata.xml">>

\* the data-source key of an annotation of the descriptor
annotationKey(a) == IF a.name # None THEN a.name ELSE a.technicalName

\* a local annotation file entry: its uri is its localUri
isLocalAnnotation(e) == e.type = "ODataAnnotation" /\ e.uri = e.localUri

\* the data sources and models the Enhancer reads: none when the manifest is
\* absent or declares none
manifestDataSources(basePath, f) ==
    IF exists(f, manifestPath(basePath)) THEN f[manifestPath(basePath)].dataSources ELSE <<>>
manifestModels(basePath, f) ==
    IF exists(f, manifestPath(basePath)) THEN f[manifestPath(basePath)].models ELSE <<>>

\* Descriptor Enhancer, rule 1: the first service of a project is always the
\* main service; with data sources present the name is left as given
setDefaultServiceName(svc, ds) ==
    IF ds = <<>> THEN DEFAULT_DATASOURCE_NAME ELSE svc.name

\* mutant: every key the manifest already has counts as a collision, the
\* service's own annotations included
setDefaultAnnotationsName_anyKey(annotations, name, ds) ==
    LET n == IF name = None THEN DEFAULT_DATASOURCE_NAME ELSE name
    IN IF ~annotations.defined THEN annotations
       ELSE [annotations EXCEPT !.items =
               [i \in DOMAIN annotations.items |->
                   LET a == annotations.items[i]
                   IN IF annotationKey(a) = n \/ dsHas(ds, annotationKey(a))
                      THEN [a EXCEPT !.name = annotationKey(a) \o "_Annotation"]
                      ELSE a]]

\* rule 4: an annotation named like the service, or like a manifest key that
\* is not one of the service's own annotations, gets the suffix _Annotation
setDefaultAnnotationsName(annotations, name, ds) ==
    LET n == IF name = None THEN DEFAULT_DATASOURCE_NAME ELSE name
        own == IF dsHas(ds, n) THEN Range(dsGet(ds, n).annotations) ELSE {}
        collides(k) == k = n \/ (dsHas(ds, k) /\ k \notin own)
    IN IF ~annotations.defined THEN annotations
       ELSE [annotations EXCEPT !.items =
               [i \in DOMAIN annotations.items |->
                   LET a == annotations.items[i]
                   IN IF collides(annotationKey(a))
                      THEN [a EXCEPT !.name = annotationKey(a) \o "_Annotation"]
                      ELSE a]]

\* rule 5: the model name bound to the data source is reused, '' otherwise
setDefaultServiceModel(svc, name, models) ==
    IF svc.model # None THEN svc.model
    ELSE LET n == IF name = None THEN DEFAULT_DATASOURCE_NAME ELSE name
             bound == {m \in DOMAIN models : models[m] = n}
         IN IF bound # {} THEN CHOOSE m \in bound : TRUE ELSE ""

\* enhanceData(basePath, service, fs): the descriptor after enhancement
enhanceData(basePath, svc, f) ==
    LET ds == manifestDataSources(basePath, f)
        name == setDefaultServiceName(svc, ds)
        path == withTrailingSlash(svc.path)
    IN [svc EXCEPT
            !.name = name,
            !.path = path,
            !.type = IF @ = None THEN "edmx" ELSE @,
            !.model = setDefaultServiceModel(svc, name, manifestModels(basePath, f)),
            !.annotations = setDefaultAnnotationsName(@, name, ds),
            !.previewSettings = [path |-> IF @.path # NoPath THEN @.path ELSE backendPath(path),
                                 url  |-> IF @.url # None THEN @.url ELSE svc.url]]

RECURSIVE migrateAnnotations(_, _, _, _, _)
\* the flat annotation files of the lone service `key` are moved into its
\* folder and their localUri rewritten: [ds, fs]
migrateAnnotations(ds, f, webapp, key, names) ==
    IF names = <<>> THEN [ds |-> ds, fs |-> f]
    ELSE LET a == Head(names)
             flat == /\ dsHas(ds, a)
                     /\ dsGet(ds, a).type = "ODataAnnotation"
                     /\ Len(dsGet(ds, a).localUri) = 2
                     /\ dsGet(ds, a).localUri[1] = "localService"
         IN IF flat
            THEN LET e == dsGet(ds, a)
                     to == <<"localService", key, e.localUri[2]>>
                 IN migrateAnnotations(dsSet(ds, [e EXCEPT !.localUri = to]),
                                       move(f, join(webapp, e.localUri), join(webapp, to)),
                                       webapp, key, Tail(names))
            ELSE migrateAnnotations(ds, f, webapp, key, Tail(names))

\* flat -> namespaced migration of the one existing OData service: [ds, fs]
migrateSingleService(ds, f, webapp, key) ==
    LET e == dsGet(ds, key)
        ds1 == dsSet(ds, [e EXCEPT !.localUri = namespacedMetadata(key)])
        f1 == move(f, join(webapp, FlatMetadata), join(webapp, namespacedMetadata(key)))
    IN migrateAnnotations(ds1, f1, webapp, key, e.annotations)

RECURSIVE mergeAnnotations(_, _, _, _)
\* one ODataAnnotation entry per annotation of the descriptor, its key
\* appended to the service's annotations list when absent: [ds, list]
mergeAnnotations(ds, list, items, folder) ==
    IF items = <<>> THEN [ds |-> ds, list |-> list]
    ELSE LET a == Head(items)
             k == annotationKey(a)
             entry == [key |-> k, type |-> "ODataAnnotation",
                       uri |-> annotationUrl(encodeURIComponent(a.technicalName)),
                       localUri |-> folder \o <<a.technicalName \o ".xml">>,
                       annotations |-> <<>>]
         IN mergeAnnotations(dsSet(ds, entry),
                             IF k \in Range(list) THEN list ELSE Append(list, k),
                             Tail(items), folder)

\* Manifest Data-Source Merger, updateManifest(basePath, service, fs): [err, fs]
updateManifest(basePath, svc, f) ==
    LET mp == manifestPath(basePath)
        m == IF exists(f, mp) THEN f[mp] ELSE Manifest(FALSE, <<>>, <<>>)
        webapp == getWebappPath(basePath)
        name == IF svc.name = None THEN DEFAULT_DATASOURCE_NAME ELSE svc.name
        existing == oDataKeys(m.dataSources)
        first == existing \subseteq {name}
        lone == CHOOSE k \in existing : TRUE
        migrate == /\ Cardinality(existing) = 1
                   /\ ~first
                   /\ dsGet(m.dataSources, lone).localUri = FlatMetadata
        mig == IF migrate THEN migrateSingleService(m.dataSources, f, webapp, lone)
               ELSE [ds |-> m.dataSources, fs |-> f]
        folder == IF first THEN <<"localService">> ELSE <<"localService", name>>
        oldList == IF dsHas(mig.ds, name) THEN dsGet(mig.ds, name).annotations ELSE <<>>
        items == IF svc.type = "edmx" /\ svc.annotations.defined THEN svc.annotations.items ELSE <<>>
        own == [key |-> name, type |-> "OData", uri |-> svc.path,
                localUri |-> folder \o <<"metadata.xml">>, annotations |-> oldList]
        ann == mergeAnnotations(dsSet(mig.ds, own), oldList, items, folder)
        ds2 == dsSet(ann.ds, [own EXCEPT !.annotations = ann.list])
        models2 == with(m.models, svc.model, name)
    IN IF ~m.appId THEN [err |-> "requiredProjectPropertyNotFound", fs |-> f]
       ELSE [err |-> None,
             fs |-> write(mig.fs, mp, [m EXCEPT !.dataSources = ds2, !.models = models2])]

\* Manifest Data-Source Remover, deleteServiceFromManifest(basePath, name, fs)
deleteServiceFromManifest(basePath, name, f) ==
    LET mp == manifestPath(basePath) IN
    IF ~exists(f, mp) THEN f
    ELSE LET m == f[mp]
             ds == m.dataSources
         IN IF ~dsHas(ds, name) THEN f
            ELSE LET e == dsGet(ds, name)
                     rest == dsDel(ds, name)
                     referenced(a) == \E i \in DOMAIN rest :
                                         rest[i].type = "OData" /\ a \in Range(rest[i].annotations)
                     drop == {a \in Range(e.annotations) :
                                 /\ dsHas(rest, a)
                                 /\ dsGet(rest, a).type = "ODataAnnotation"
                                 /\ ~isLocalAnnotation(dsGet(rest, a))
                                 /\ ~referenced(a)}
                     models2 == [x \in {y \in DOMAIN m.models : m.models[y] # name} |-> m.models[x]]
                 IN write(f, mp, [m EXCEPT !.dataSources = removeBy(rest, "key", drop),
                                           !.models = models2])

-----------------------------------------------------------------------------
(* Collaborators of index.ts that write files                              *)

RECURSIVE annotationUrlPathsOf(_, _)
\* the url paths of the backend annotations a service entry lists
annotationUrlPathsOf(ds, names) ==
    IF names = <<>> THEN <<>>
    ELSE LET a == Head(names)
             backend == /\ dsHas(ds, a)
                        /\ dsGet(ds, a).type = "ODataAnnotation"
                        /\ ~isLocalAnnotation(dsGet(ds, a))
         IN (IF backend THEN <<dsGet(ds, a).uri>> ELSE <<>>) \o annotationUrlPathsOf(ds, Tail(names))

RECURSIVE mockFromDataSources(_, _, _)
\* the mock-server block brought up to date with every OData data source
mockFromDataSources(doc, ds, todo) ==
    IF todo = <<>> THEN doc
    ELSE LET e == Head(todo)
         IN mockFromDataSources(
                IF e.type = "OData"
                THEN addServiceToMockserverMiddleware(doc, e.key, e.uri, annotationUrlPathsOf(ds, e.annotations))
                ELSE doc,
                ds, Tail(todo))

\* @sap-ux/mockserver-config-writer generateMockserverConfig(basePath, config, fs):
\* ui5-mock.yaml of the project root is created (from its ui5.yaml when there
\* is one) or refreshed from the manifest's data sources
generateMockserverConfig(basePath, f) ==
    LET target == join(basePath, <<"ui5-mock.yaml">>)
        ui5 == join(basePath, <<"ui5.yaml">>)
        doc == IF exists(f, target) THEN newInstance(f[target])
               ELSE IF exists(f, ui5) THEN newInstance(f[ui5])
               ELSE EmptyDoc
        ds == f[manifestPath(basePath)].dataSources
    IN write(f, target, toString(mockFromDataSources(doc, ds, ds)))

\* updatePackageJson(path, fs, !!service.metadata): the idempotent UI5 flag,
\* and the mock-server entries once a call brings metadata
updatePackageJson(path, f, withMetadata) ==
    write(f, path, [f[path] EXCEPT !.sapux = TRUE, !.mockserver = @ \/ withMetadata])

\* prettifyXml(metadata): the file content written for a payload
prettifyXml(xml) == [kind |-> "xml", body |-> xml]

annotationFile(basePath, serviceName, a) ==
    join(getWebappPath(basePath), <<"localService", serviceName, a.technicalName \o ".xml">>)

RECURSIVE writeAnnotationItems(_, _, _, _)
writeAnnotationItems(f, basePath, serviceName, items) ==
    IF items = <<>> THEN f
    ELSE writeAnnotationItems(
            IF Head(items).xml # None
            THEN write(f, annotationFile(basePath, serviceName, Head(items)), prettifyXml(Head(items).xml))
            ELSE f,
            basePath, serviceName, Tail(items))

\* writeAnnotationXmlFiles(fs, basePath, serviceName, annotations)
writeAnnotationXmlFiles(f, basePath, serviceName, annotations) ==
    IF ~annotations.defined THEN f
    ELSE writeAnnotationItems(f, basePath, serviceName, annotations.items)

RECURSIVE removeAnnotationItems(_, _, _, _)
removeAnnotationItems(f, basePath, serviceName, items) ==
    IF items = <<>> THEN f
    ELSE removeAnnotationItems(delete(f, annotationFile(basePath, serviceName, Head(items))),
                               basePath, serviceName, Tail(items))

\* removeAnnotationXmlFiles(fs, basePath, serviceName, annotations)
removeAnnotationXmlFiles(f, basePath, serviceName, annotations) ==
    IF ~annotations.defined THEN f
    ELSE removeAnnotationItems(f, basePath, serviceName, annotations.items)

CdsFile(basePath) == join(basePath, <<"annotations.cds">>)

\* updateCdsFilesWithAnnotations / removeAnnotationsFromCDSFiles: the CDS
\* source file of the project with or without the annotation's using clause
updateCdsFilesWithAnnotations(f, basePath) == write(f, CdsFile(basePath), [kind |-> "cds", annotated |-> TRUE])
removeAnnotationsFromCDSFiles(f, basePath) ==
    IF exists(f, CdsFile(basePath)) THEN write(f, CdsFile(basePath), [kind |-> "cds", annotated |-> FALSE]) ELSE f

-----------------------------------------------------------------------------
(* index.ts: extendBackendMiddleware, writeLocalServiceFiles               *)

backendOf(svc) == [path |-> svc.previewSettings.path, url |-> svc.previewSettings.url]

MiddlewareNotFound == {"nodeNotFound", "Could not find fiori-tools-proxy"}

\* mutant: the backend entry is appended without looking for its path
extendBackendMiddleware_append(f, svc, doc, path) ==
    LET doc2 == [doc EXCEPT !.proxy = "ok", !.backend = Append(@, backendOf(svc))]
    IN [err |-> IF doc.proxy = "bad" THEN "yamlError" ELSE None, doc |-> doc2,
        fs |-> IF doc.proxy = "bad" THEN f ELSE write(f, path, toString(doc2))]

\* mutant: the entry to replace is looked up by its url instead of its path
extendBackendMiddleware_byUrl(f, svc, doc, path) ==
    LET doc2 == [doc EXCEPT !.proxy = "ok", !.backend = upsertBy(@, "url", backendOf(svc))]
    IN [err |-> IF doc.proxy = "bad" THEN "yamlError" ELSE None, doc |-> doc2,
        fs |-> IF doc.proxy = "bad" THEN f ELSE write(f, path, toString(doc2))]

\* mutant: every error of addBackendToFioriToolsProxydMiddleware is taken
\* for a missing middleware block
extendBackendMiddleware_catchAll(f, svc, doc, path) ==
    LET r == addBackendToFioriToolsProxydMiddleware(doc, backendOf(svc))
        doc2 == IF r.err = None THEN r.doc ELSE addFioriToolsProxydMiddleware(doc, backendOf(svc))
    IN [err |-> None, doc |-> doc2, fs |-> write(f, path, toString(doc2))]

\* extendBackendMiddleware(fs, service, ui5Config, ui5ConfigPath): [err, doc, fs]
extendBackendMiddleware(f, svc, doc, path) ==
    LET r == addBackendToFioriToolsProxydMiddleware(doc, backendOf(svc))
        doc2 == IF r.err = None THEN r.doc
                ELSE IF r.err \in MiddlewareNotFound THEN addFioriToolsProxydMiddleware(doc, backendOf(svc))
                ELSE doc
        thrown == IF r.err = None \/ r.err \in MiddlewareNotFound THEN None ELSE r.err
    IN [err |-> thrown, doc |-> doc2,
        fs |-> IF thrown = None THEN write(f, path, toString(doc2)) ELSE f]

serviceFolder(svc) == IF svc.name = None THEN DEFAULT_DATASOURCE_NAME ELSE svc.name

\* mutant: the metadata goes to the flat localService/metadata.xml
writeLocalServiceFiles_flat(f, basePath, svc) ==
    write(f, join(getWebappPath(basePath), FlatMetadata), prettifyXml(svc.metadata))

\* writeLocalServiceFiles(fs, basePath, webappPath, templateRoot, service)
writeLocalServiceFiles(f, basePath, svc) ==
    LET f1 == write(f, join(getWebappPath(basePath), <<"localService", serviceFolder(svc), "metadata.xml">>),
                    prettifyXml(svc.metadata))
    IN IF svc.localAnnotationsName # None
       THEN write(f1, join(basePath, <<"webapp", "annotations", svc.localAnnotationsName \o ".xml">>),
                  [kind |-> "xml", body |-> "annotation.xml template"])
       ELSE f1

-----------------------------------------------------------------------------
(* Inputs: the descriptors the calls are made with                         *)

NoPreview == [path |-> NoPath, url |-> None]

Descriptor(name, url, path, type, metadata, annotations) ==
    [name |-> name, url |-> url, path |-> path, type |-> type, metadata |-> metadata,
     annotations |-> annotations, previewSettings |-> NoPreview, model |-> None,
     localAnnotationsName |-> None]

A1 == [technicalName |-> "SEPMRA_PROD_MAN", name |-> None, xml |-> "<A1 />"]
A2 == [technicalName |-> "AN B", name |-> None, xml |-> None]
A3 == [technicalName |-> "T3", name |-> "svcB", xml |-> None]
AnnList(items) == [defined |-> TRUE, isArray |-> TRUE, items |-> items]
AnnOne(a) == [defined |-> TRUE, isArray |-> FALSE, items |-> <<a>>]

PathA == <<"", "sap", "a">>
PathB == <<"", "sap", "b", "">>
PathV == <<"", "V2", "n">>

Descriptors ==
    {[Descriptor(n, u, PathA, "edmx", "<XML />", AnnList(<<A1>>))
         EXCEPT !.model = IF n = "svcB" /\ u = "u2" THEN "svcB" ELSE None] :
        n \in {None, "mainService", "svcB"}, u \in {"u1", "u2"}}
    \cup {Descriptor("svcB", "u1", PathB, "edmx", None, NoAnnotations),
          Descriptor("mainService", "u2", PathV, "edmx", "<XML />", AnnOne(A2)),
          Descriptor("svcB", "u1", PathA, "cds", None, AnnOne(A2)),
          Descriptor("svcB", "u2", PathB, "edmx", "<XML />", AnnOne(A3)),
          Descriptor(None, "u1", NoPath, "edmx", None, NoAnnotations)}

-----------------------------------------------------------------------------
(* Initial project states                                                  *)

Yaml(proxy, backend, mock, services, annotations) ==
    toString([proxy |-> proxy, backend |-> backend, mock |-> mock,
              services |-> services, annotations |-> annotations])

Entry(key, type, uri, localUri, annotations) ==
    [key |-> key, type |-> type, uri |-> uri, localUri |-> localUri, annotations |-> annotations]

Webapp == getWebappPath(BasePath)
Parent == dirname(BasePath)

\* the filesystem root as the parts before a file name: /x splits into <<"", "x">>
Root == <<"">>

\* the working directory of the process: the editor resolves a relative path
\* against it, so a file in it is the one a relative path names
Cwd == <<>>

A1Url == annotationUrl(encodeURIComponent(A1.technicalName))
LocalAnnotation == Entry("annotation", "ODataAnnotation", <<"annotations", "annotation.xml">>,
                         <<"annotations", "annotation.xml">>, <<>>)

\* one service in the flat legacy layout, with a backend and a local annotation
FlatProject ==
    (manifestPath(BasePath) :> Manifest(TRUE,
        <<Entry("mainService", "OData", <<"", "sap", "a", "">>, FlatMetadata, <<"SEPMRA_PROD_MAN", "annotation">>),
          Entry("SEPMRA_PROD_MAN", "ODataAnnotation", A1Url, <<"localService", "SEPMRA_PROD_MAN.xml">>, <<>>),
          LocalAnnotation>>,
        [m \in {""} |-> "mainService"]))
    @@ (join(Webapp, FlatMetadata) :> prettifyXml("<OLD />"))
    @@ (join(Webapp, <<"localService", "SEPMRA_PROD_MAN.xml">>) :> prettifyXml("<A1 />"))

\* two services in the namespaced layout that share one backend annotation
TwoServices ==
    (manifestPath(BasePath) :> Manifest(TRUE,
        <<Entry("mainService", "OData", <<"", "sap", "a", "">>, namespacedMetadata("mainService"), <<"SEPMRA_PROD_MAN">>),
          Entry("SEPMRA_PROD_MAN", "ODataAnnotation", A1Url, <<"localService", "mainService", "SEPMRA_PROD_MAN.xml">>, <<>>),
          Entry("svcB", "OData", <<"", "sap", "b", "">>, namespacedMetadata("svcB"), <<"SEPMRA_PROD_MAN">>)>>,
        [m \in {"svcB"} |-> "svcB"]))
    @@ (join(Webapp, namespacedMetadata("mainService")) :> prettifyXml("<OLD />"))
    @@ (join(Webapp, <<"localService", "mainService", "SEPMRA_PROD_MAN.xml">>) :> prettifyXml("<A1 />"))

Manifests ==
    {<<>>,
     manifestPath(BasePath) :> Manifest(FALSE, <<>>, <<>>),
     manifestPath(BasePath) :> Manifest(TRUE, <<>>, <<>>),
     FlatProject,
     TwoServices}

PackageJson == [kind |-> "json", sapux |-> FALSE, mockserver |-> FALSE]

FullYaml == Yaml("ok", <<[path |-> <<"", "sap">>, url |-> "u1"]>>, TRUE,
                 <<[serviceName |-> "mainService", servicePath |-> <<"", "sap", "a">>]>>,
                 <<[urlPath |-> A1Url]>>)

Layouts ==
    {<<>>,
     \* the project of the tests: ui5.yaml with an empty proxy, an empty ui5-local.yaml
     (join(BasePath, <<"ui5.yaml">>) :> Yaml("ok", <<>>, FALSE, <<>>, <<>>))
       @@ (join(BasePath, <<"ui5-local.yaml">>) :> toString(EmptyDoc))
       @@ (join(BasePath, <<"package.json">>) :> PackageJson),
     \* all three YAML files with the main service's backend and mock entries
     (join(BasePath, <<"ui5.yaml">>) :> Yaml("ok", <<[path |-> <<"", "sap">>, url |-> "u1"],
                                                     [path |-> <<"", "V2">>, url |-> "u2"]>>, FALSE, <<>>, <<>>))
       @@ (join(BasePath, <<"ui5-local.yaml">>) :> FullYaml)
       @@ (join(BasePath, <<"ui5-mock.yaml">>) :> FullYaml)
       @@ (join(BasePath, <<"package.json">>) :> PackageJson),
     \* ui5.yaml one level up, without a proxy middleware
     (join(Parent, <<"ui5.yaml">>) :> Yaml("noItem", <<>>, FALSE, <<>>, <<>>))
       @@ (join(BasePath, <<"ui5-mock.yaml">>) :> Yaml("ok", <<[path |-> <<"", "V2">>, url |-> "u2"]>>, FALSE, <<>>, <<>>))
       @@ (join(Parent, <<"ui5-mock.yaml">>) :> FullYaml)
       @@ (join(Parent, <<"package.json">>) :> PackageJson),
     \* a package.json in the filesystem root only, and a ui5.yaml in the
     \* working directory of the process, which is outside the project
     (Root \o <<"package.json">> :> PackageJson)
       @@ (join(Cwd, <<"ui5.yaml">>) :> Yaml("ok", <<[path |-> <<"", "V2">>, url |-> "u2"]>>, FALSE, <<>>, <<>>))
       @@ (join(BasePath, <<"ui5-local.yaml">>) :> toString(EmptyDoc)),
     \* ui5.yaml in the project, the other three files one level up
     (join(BasePath, <<"ui5.yaml">>) :> Yaml("ok", <<>>, FALSE, <<>>, <<>>))
       @@ (join(Parent, <<"ui5-local.yaml">>) :> toString(EmptyDoc))
       @@ (join(Parent, <<"ui5-mock.yaml">>) :> FullYaml)
       @@ (join(Parent, <<"package.json">>) :> PackageJson),
     \* a ui5-local.yaml whose middleware node has an unexpected shape
     (join(BasePath, <<"ui5.yaml">>) :> Yaml("ok", <<[path |-> <<"", "V2">>, url |-> "u2"]>>, FALSE, <<>>, <<>>))
       @@ (join(BasePath, <<"ui5-local.yaml">>) :> Yaml("bad", <<>>, FALSE, <<>>, <<>>)),
     \* no ui5.yaml, the other files present
     (join(BasePath, <<"ui5-local.yaml">>) :> FullYaml)
       @@ (join(BasePath, <<"ui5-mock.yaml">>) :> FullYaml)
       @@ (join(BasePath, <<"package.json">>) :> PackageJson)}

NoCfg == [ui5 |-> NoInstance, local |-> NoInstance, mock |-> NoInstance, annotationPaths |-> <<>>]
NoService == Descriptor(None, None, NoPath, None, None, NoAnnotations)
NoCall == [op |-> None, arg |-> NoService, service |-> NoService, error |-> None, pre |-> <<>>]

Init ==
    /\ \E m \in Manifests : \E l \in Layouts : fs = m @@ l
    /\ pc = "idle"
    /\ op = None
    /\ service = NoService
    /\ paths = NoFiles
    /\ cfg = NoCfg
    /\ error = None
    /\ pre = <<>>
    /\ arg = NoService
    /\ last = NoCall
    /\ iterations = 0
    /\ editor = 0
    /\ given = FALSE
    /\ disk = fs
    /\ calls = 0

-----------------------------------------------------------------------------
(* generate(basePath, service, fs)                                         *)

\* what a call start records about the call before it
Shift == [op |-> op, arg |-> arg, service |-> service, error |-> error, pre |-> pre]

\* the descriptors a caller can pass: a fresh one, or the object of the
\* previous call as enhanceData left it
Passable == Descriptors \cup (IF op = None THEN {} ELSE {service})

\* the call is rejected with err: nothing after the throwing statement runs
Throw(err) == error' = err /\ pc' = "idle"

\* mutant: a new editor is created although the caller supplied one
GenerateBegin_fresh(d) ==
    /\ pc = "idle"
    /\ calls < MaxCalls
    /\ calls' = calls + 1
    /\ last' = Shift
    /\ op' = "generate"
    /\ arg' = d
    /\ service' = d
    /\ fs' = disk
    /\ pre' = disk
    /\ paths' = findProjectFiles(BasePath, disk)
    /\ iterations' = findIterations(disk, BasePath, NoFiles)
    /\ cfg' = NoCfg
    /\ error' = ensureExists(BasePath, disk)
    /\ pc' = IF ensureExists(BasePath, disk) = None THEN "enhanceData" ELSE "idle"
    /\ given' = TRUE
    /\ editor' = editor + 1
    /\ UNCHANGED disk

\* lines 247-251 without an editor from the caller: create(createStorage())
\* makes a new editor, which holds no change and reads through to the disk
GenerateBeginFresh(d) ==
    /\ pc = "idle"
    /\ calls < MaxCalls
    /\ calls' = calls + 1
    /\ last' = Shift
    /\ op' = "generate"
    /\ arg' = d
    /\ service' = d
    /\ fs' = disk
    /\ pre' = disk
    /\ paths' = findProjectFiles(BasePath, disk)
    /\ iterations' = findIterations(disk, BasePath, NoFiles)
    /\ cfg' = NoCfg
    /\ error' = ensureExists(BasePath, disk)
    /\ pc' = IF ensureExists(BasePath, disk) = None THEN "enhanceData" ELSE "idle"
    /\ given' = FALSE
    /\ editor' = editor + 1
    /\ UNCHANGED disk

\* lines 247-251 with the caller's editor: findProjectFiles and ensureExists
GenerateBegin(d) ==
    /\ pc = "idle"
    /\ calls < MaxCalls
    /\ calls' = calls + 1
    /\ last' = Shift
    /\ op' = "generate"
    /\ arg' = d
    /\ service' = d
    /\ pre' = fs
    /\ paths' = findProjectFiles(BasePath, fs)
    /\ iterations' = findIterations(fs, BasePath, NoFiles)
    /\ given' = TRUE
    /\ UNCHANGED <<editor, disk>>
    /\ cfg' = NoCfg
    /\ error' = ensureExists(BasePath, fs)
    /\ pc' = IF ensureExists(BasePath, fs) = None THEN "enhanceData" ELSE "idle"
    /\ UNCHANGED fs

\* mutant: the descriptor goes to updateManifest as the caller passed it
GenerateEnhance_skipped ==
    /\ pc = "enhanceData"
    /\ pc' = "updateManifest"
    /\ UNCHANGED <<fs, service, op, paths, cfg, error, pre, arg, last, iterations, calls, editor, given, disk>>

\* line 252: enhanceData mutates the descriptor
GenerateEnhance ==
    /\ pc = "enhanceData"
    /\ service' = enhanceData(BasePath, service, fs)
    /\ pc' = "updateManifest"
    /\ UNCHANGED <<fs, op, paths, cfg, error, pre, arg, last, iterations, calls, editor, given, disk>>

\* mutant: the EDMX branch is taken whatever the service type
GenerateManifest_alwaysEdmx ==
    /\ pc = "updateManifest"
    /\ LET r == updateManifest(BasePath, service, fs)
       IN IF r.err # None
          THEN Throw(r.err) /\ UNCHANGED fs
          ELSE /\ fs' = r.fs
               /\ pc' = "ui5Yaml"
               /\ UNCHANGED error
    /\ UNCHANGED <<op, service, paths, cfg, pre, arg, last, iterations, calls, editor, given, disk>>

\* mutant: the error of updateManifest is swallowed
GenerateManifest_swallow ==
    /\ pc = "updateManifest"
    /\ fs' = updateManifest(BasePath, service, fs).fs
    /\ pc' = IF service.type = "edmx" THEN "ui5Yaml" ELSE "cds"
    /\ UNCHANGED <<op, service, paths, cfg, error, pre, arg, last, iterations, calls, editor, given, disk>>

\* lines 254-265: updateManifest, then the branch on the service type
GenerateManifest ==
    /\ pc = "updateManifest"
    /\ LET r == updateManifest(BasePath, service, fs)
       IN IF r.err # None
          THEN Throw(r.err) /\ UNCHANGED fs
          ELSE /\ fs' = r.fs
               /\ pc' = IF service.type = "edmx" THEN "ui5Yaml" ELSE "cds"
               /\ UNCHANGED error
    /\ UNCHANGED <<op, service, paths, cfg, pre, arg, last, iterations, calls, editor, given, disk>>

\* lines 262-265: CDS annotations go to the CDS files
GenerateCds ==
    /\ pc = "cds"
    /\ fs' = IF service.annotations.defined THEN updateCdsFilesWithAnnotations(fs, BasePath) ELSE fs
    /\ pc' = "idle"
    /\ UNCHANGED <<op, service, paths, cfg, error, pre, arg, last, iterations, calls, editor, given, disk>>

\* mutant: the backend entry is written only for a service with metadata
GenerateUi5Yaml_gated ==
    /\ pc = "ui5Yaml"
    /\ IF paths.ui5Yaml = NoPath \/ service.metadata = None
       THEN pc' = "metadata" /\ UNCHANGED <<fs, cfg, error>>
       ELSE LET r == extendBackendMiddleware(fs, service, newInstance(fs[paths.ui5Yaml]), paths.ui5Yaml)
            IN /\ cfg' = [cfg EXCEPT !.ui5 = <<r.doc>>]
               /\ fs' = r.fs
               /\ IF r.err # None THEN Throw(r.err) ELSE pc' = "ui5LocalYaml" /\ UNCHANGED error
    /\ UNCHANGED <<op, service, paths, pre, arg, last, iterations, calls, editor, given, disk>>

\* lines 199-203: the backend entry in ui5.yaml
GenerateUi5Yaml ==
    /\ pc = "ui5Yaml"
    /\ IF paths.ui5Yaml = NoPath
       THEN pc' = "metadata" /\ UNCHANGED <<fs, cfg, error>>
       ELSE LET r == extendBackendMiddleware(fs, service, newInstance(fs[paths.ui5Yaml]), paths.ui5Yaml)
            IN /\ cfg' = [cfg EXCEPT !.ui5 = <<r.doc>>]
               /\ fs' = r.fs
               /\ IF r.err # None THEN Throw(r.err) ELSE pc' = "ui5LocalYaml" /\ UNCHANGED error
    /\ UNCHANGED <<op, service, paths, pre, arg, last, iterations, calls, editor, given, disk>>

\* mutant: the instance kept for the later write is the document as it was
\* read, without the backend entry
GenerateUi5LocalYaml_unkept ==
    /\ pc = "ui5LocalYaml"
    /\ IF paths.ui5LocalYaml = NoPath
       THEN pc' = "metadata" /\ UNCHANGED <<fs, cfg, error>>
       ELSE LET r == extendBackendMiddleware(fs, service, newInstance(fs[paths.ui5LocalYaml]), paths.ui5LocalYaml)
            IN /\ cfg' = [cfg EXCEPT !.local = <<newInstance(fs[paths.ui5LocalYaml])>>]
               /\ fs' = r.fs
               /\ IF r.err # None THEN Throw(r.err) ELSE pc' = "metadata" /\ UNCHANGED error
    /\ UNCHANGED <<op, service, paths, pre, arg, last, iterations, calls, editor, given, disk>>

\* lines 204-207: the backend entry in ui5-local.yaml
GenerateUi5LocalYaml ==
    /\ pc = "ui5LocalYaml"
    /\ IF paths.ui5LocalYaml = NoPath
       THEN pc' = "metadata" /\ UNCHANGED <<fs, cfg, error>>
       ELSE LET r == extendBackendMiddleware(fs, service, newInstance(fs[paths.ui5LocalYaml]), paths.ui5LocalYaml)
            IN /\ cfg' = [cfg EXCEPT !.local = <<r.doc>>]
               /\ fs' = r.fs
               /\ IF r.err # None THEN Throw(r.err) ELSE pc' = "metadata" /\ UNCHANGED error
    /\ UNCHANGED <<op, service, paths, pre, arg, last, iterations, calls, editor, given, disk>>

\* mutant: the mock-server configuration is generated without a ui5.yaml
GenerateMockserverConfig_noUi5Yaml ==
    /\ pc = "metadata"
    /\ IF service.metadata = None
       THEN pc' = "packageJson" /\ UNCHANGED fs
       ELSE /\ fs' = generateMockserverConfig(BasePath, fs)
            /\ pc' = IF paths.ui5Yaml # NoPath /\ cfg.ui5 # NoInstance
                     THEN "mockserverMiddleware" ELSE "localServiceFiles"
    /\ UNCHANGED <<op, service, paths, cfg, error, pre, arg, last, iterations, calls, editor, given, disk>>

\* mutant: the steps of lines 210-225 run without looking for metadata
GenerateMockserverConfig_always ==
    /\ pc = "metadata"
    /\ IF paths.ui5Yaml # NoPath /\ cfg.ui5 # NoInstance
       THEN fs' = generateMockserverConfig(BasePath, fs) /\ pc' = "mockserverMiddleware"
       ELSE pc' = "localServiceFiles" /\ UNCHANGED fs
    /\ UNCHANGED <<op, service, paths, cfg, error, pre, arg, last, iterations, calls, editor, given, disk>>

\* lines 209-216: with metadata and a ui5.yaml, the mock-server configuration
GenerateMockserverConfig ==
    /\ pc = "metadata"
    /\ IF service.metadata = None
       THEN pc' = "packageJson" /\ UNCHANGED fs
       ELSE IF paths.ui5Yaml # NoPath /\ cfg.ui5 # NoInstance
            THEN fs' = generateMockserverConfig(BasePath, fs) /\ pc' = "mockserverMiddleware"
            ELSE pc' = "localServiceFiles" /\ UNCHANGED fs
    /\ UNCHANGED <<op, service, paths, cfg, error, pre, arg, last, iterations, calls, editor, given, disk>>

\* lines 218, 79-94: generateMockserverMiddlewareBasedOnUi5MockYaml; fs.read
\* throws when there is no ui5-mock.yaml beside ui5.yaml
GenerateMockserverMiddleware ==
    /\ pc = "mockserverMiddleware"
    /\ LET ui5MockYamlPath == join(dirname(paths.ui5Yaml), <<"ui5-mock.yaml">>)
       IN IF ~exists(fs, ui5MockYamlPath)
          THEN Throw("file doesn't exist") /\ UNCHANGED cfg
          ELSE LET block == findMockserverMiddleware(newInstance(fs[ui5MockYamlPath]))
               IN /\ cfg' = IF /\ paths.ui5LocalYaml # NoPath
                               /\ exists(fs, paths.ui5LocalYaml)
                               /\ cfg.local # NoInstance
                               /\ block.found
                            THEN [cfg EXCEPT !.local = <<updateMockserverMiddleware(@[1], block)>>]
                            ELSE cfg
                  /\ pc' = "ui5MockYaml"
                  /\ UNCHANGED error
    /\ UNCHANGED <<fs, op, service, paths, pre, arg, last, iterations, calls, editor, given, disk>>

\* lines 219-223: the backend entry in ui5-mock.yaml
GenerateUi5MockYaml ==
    /\ pc = "ui5MockYaml"
    /\ IF paths.ui5MockYaml = NoPath
       THEN pc' = "localServiceFiles" /\ UNCHANGED <<fs, cfg, error>>
       ELSE LET r == extendBackendMiddleware(fs, service, newInstance(fs[paths.ui5MockYaml]), paths.ui5MockYaml)
            IN /\ cfg' = [cfg EXCEPT !.mock = <<r.doc>>]
               /\ fs' = r.fs
               /\ IF r.err # None THEN Throw(r.err) ELSE pc' = "localServiceFiles" /\ UNCHANGED error
    /\ UNCHANGED <<op, service, paths, pre, arg, last, iterations, calls, editor, given, disk>>

\* line 225: the local copies of metadata and local annotations
GenerateLocalServiceFiles ==
    /\ pc = "localServiceFiles"
    /\ fs' = writeLocalServiceFiles(fs, BasePath, service)
    /\ pc' = "packageJson"
    /\ UNCHANGED <<op, service, paths, cfg, error, pre, arg, last, iterations, calls, editor, given, disk>>

\* mutant: package.json is updated without looking for a ui5.yaml
GeneratePackageJson_noUi5Yaml ==
    /\ pc = "packageJson"
    /\ fs' = IF paths.packageJson # NoPath
             THEN updatePackageJson(paths.packageJson, fs, service.metadata # None) ELSE fs
    /\ pc' = "writeUi5LocalYaml"
    /\ UNCHANGED <<op, service, paths, cfg, error, pre, arg, last, iterations, calls, editor, given, disk>>

\* lines 227-229
GeneratePackageJson ==
    /\ pc = "packageJson"
    /\ fs' = IF paths.packageJson # NoPath /\ paths.ui5Yaml # NoPath
             THEN updatePackageJson(paths.packageJson, fs, service.metadata # None) ELSE fs
    /\ pc' = "writeUi5LocalYaml"
    /\ UNCHANGED <<op, service, paths, cfg, error, pre, arg, last, iterations, calls, editor, given, disk>>

\* lines 230-233: ui5-local.yaml is written from the instance read at line 205
GenerateWriteUi5LocalYaml ==
    /\ pc = "writeUi5LocalYaml"
    /\ fs' = IF paths.ui5LocalYaml # NoPath /\ cfg.local # NoInstance
             THEN write(fs, paths.ui5LocalYaml, toString(cfg.local[1])) ELSE fs
    /\ pc' = "annotationXmlFiles"
    /\ UNCHANGED <<op, service, paths, cfg, error, pre, arg, last, iterations, calls, editor, given, disk>>

\* line 234
GenerateAnnotationXmlFiles ==
    /\ pc = "annotationXmlFiles"
    /\ fs' = writeAnnotationXmlFiles(fs, BasePath, serviceFolder(service), service.annotations)
    /\ pc' = "idle"
    /\ UNCHANGED <<op, service, paths, cfg, error, pre, arg, last, iterations, calls, editor, given, disk>>

-----------------------------------------------------------------------------
(* remove(basePath, service, fs)                                           *)

\* mutant: the manifest is left as it is
RemoveBegin_keepsManifest(d) ==
    /\ pc = "idle"
    /\ calls < MaxCalls
    /\ calls' = calls + 1
    /\ last' = Shift
    /\ op' = "remove"
    /\ arg' = d
    /\ service' = d
    /\ pre' = fs
    /\ paths' = findProjectFiles(BasePath, fs)
    /\ iterations' = findIterations(fs, BasePath, NoFiles)
    /\ given' = TRUE
    /\ UNCHANGED <<editor, disk>>
    /\ cfg' = NoCfg
    /\ error' = None
    /\ pc' = IF d.type = "edmx" THEN "removeUi5Yaml" ELSE "removeCds"
    /\ UNCHANGED fs

\* lines 300-309 without an editor from the caller
RemoveBeginFresh(d) ==
    /\ pc = "idle"
    /\ calls < MaxCalls
    /\ calls' = calls + 1
    /\ last' = Shift
    /\ op' = "remove"
    /\ arg' = d
    /\ service' = d
    /\ pre' = disk
    /\ paths' = findProjectFiles(BasePath, disk)
    /\ iterations' = findIterations(disk, BasePath, NoFiles)
    /\ cfg' = NoCfg
    /\ error' = None
    /\ fs' = deleteServiceFromManifest(BasePath, d.name, disk)
    /\ pc' = IF d.type = "edmx" THEN "removeUi5Yaml" ELSE "removeCds"
    /\ given' = FALSE
    /\ editor' = editor + 1
    /\ UNCHANGED disk

\* lines 300-309 with the caller's editor: findProjectFiles, then the service
\* leaves the manifest
RemoveBegin(d) ==
    /\ pc = "idle"
    /\ calls < MaxCalls
    /\ calls' = calls + 1
    /\ last' = Shift
    /\ op' = "remove"
    /\ arg' = d
    /\ service' = d
    /\ pre' = fs
    /\ paths' = findProjectFiles(BasePath, fs)
    /\ iterations' = findIterations(fs, BasePath, NoFiles)
    /\ given' = TRUE
    /\ UNCHANGED <<editor, disk>>
    /\ cfg' = NoCfg
    /\ error' = None
    /\ fs' = deleteServiceFromManifest(BasePath, d.name, fs)
    /\ pc' = IF d.type = "edmx" THEN "removeUi5Yaml" ELSE "removeCds"

\* lines 313-318
RemoveUi5Yaml ==
    /\ pc = "removeUi5Yaml"
    /\ IF paths.ui5Yaml = NoPath
       THEN UNCHANGED <<fs, cfg>>
       ELSE LET doc == removeBackendFromFioriToolsProxydMiddleware(newInstance(fs[paths.ui5Yaml]), service.url)
            IN cfg' = [cfg EXCEPT !.ui5 = <<doc>>] /\ fs' = write(fs, paths.ui5Yaml, toString(doc))
    /\ pc' = "annotationPaths"
    /\ UNCHANGED <<op, service, paths, error, pre, arg, last, iterations, calls, editor, given, disk>>

\* lines 319-321: getEDMXAnnotationPaths throws on a descriptor without annotations
RemoveAnnotationPaths ==
    /\ pc = "annotationPaths"
    /\ IF getEDMXAnnotationPaths(service.annotations).err # None
       THEN Throw(getEDMXAnnotationPaths(service.annotations).err) /\ UNCHANGED cfg
       ELSE /\ cfg' = [cfg EXCEPT !.annotationPaths = getEDMXAnnotationPaths(service.annotations).paths]
            /\ pc' = "removeUi5LocalYaml"
            /\ UNCHANGED error
    /\ UNCHANGED <<fs, op, service, paths, pre, arg, last, iterations, calls, editor, given, disk>>

\* mutant: the backend entry is left in the file
removeFromYaml_keepsBackend(doc, svc, annotationPaths) ==
    removeServiceFromMockServerMiddleware(doc, svc.path, annotationPaths)

\* mutant: the backend entry is matched by its path instead of its url
removeFromYaml_byPath(doc, svc, annotationPaths) ==
    removeServiceFromMockServerMiddleware(
        [doc EXCEPT !.backend = removeBy(@, "path", {backendPath(svc.path)})], svc.path, annotationPaths)

\* lines 325-327, 333-335: what remove takes out of ui5-local.yaml / ui5-mock.yaml
removeFromYaml(doc, svc, annotationPaths) ==
    removeServiceFromMockServerMiddleware(
        removeBackendFromFioriToolsProxydMiddleware(doc, svc.url), svc.path, annotationPaths)

\* mutant: ui5-local.yaml is processed only when a ui5.yaml was found
RemoveUi5LocalYaml_needsUi5Yaml ==
    /\ pc = "removeUi5LocalYaml"
    /\ IF paths.ui5LocalYaml = NoPath \/ paths.ui5Yaml = NoPath
       THEN UNCHANGED <<fs, cfg>>
       ELSE LET doc == removeFromYaml(newInstance(fs[paths.ui5LocalYaml]), service, cfg.annotationPaths)
            IN cfg' = [cfg EXCEPT !.local = <<doc>>] /\ fs' = write(fs, paths.ui5LocalYaml, toString(doc))
    /\ pc' = "removeUi5MockYaml"
    /\ UNCHANGED <<op, service, paths, error, pre, arg, last, iterations, calls, editor, given, disk>>

\* lines 322-329
RemoveUi5LocalYaml ==
    /\ pc = "removeUi5LocalYaml"
    /\ IF paths.ui5LocalYaml = NoPath
       THEN UNCHANGED <<fs, cfg>>
       ELSE LET doc == removeFromYaml(newInstance(fs[paths.ui5LocalYaml]), service, cfg.annotationPaths)
            IN cfg' = [cfg EXCEPT !.local = <<doc>>] /\ fs' = write(fs, paths.ui5LocalYaml, toString(doc))
    /\ pc' = "removeUi5MockYaml"
    /\ UNCHANGED <<op, service, paths, error, pre, arg, last, iterations, calls, editor, given, disk>>

\* lines 330-337
RemoveUi5MockYaml ==
    /\ pc = "removeUi5MockYaml"
    /\ IF paths.ui5MockYaml = NoPath
       THEN UNCHANGED <<fs, cfg>>
       ELSE LET doc == removeFromYaml(newInstance(fs[paths.ui5MockYaml]), service, cfg.annotationPaths)
            IN cfg' = [cfg EXCEPT !.mock = <<doc>>] /\ fs' = write(fs, paths.ui5MockYaml, toString(doc))
    /\ pc' = "removeAnnotationXmlFiles"
    /\ UNCHANGED <<op, service, paths, error, pre, arg, last, iterations, calls, editor, given, disk>>

\* lines 338-343
RemoveAnnotationXmlFiles ==
    /\ pc = "removeAnnotationXmlFiles"
    /\ fs' = removeAnnotationXmlFiles(fs, BasePath, serviceFolder(service), service.annotations)
    /\ pc' = "idle"
    /\ UNCHANGED <<op, service, paths, cfg, error, pre, arg, last, iterations, calls, editor, given, disk>>

\* lines 344-347
RemoveCds ==
    /\ pc = "removeCds"
    /\ fs' = removeAnnotationsFromCDSFiles(fs, BasePath)
    /\ pc' = "idle"
    /\ UNCHANGED <<op, service, paths, cfg, error, pre, arg, last, iterations, calls, editor, given, disk>>

-----------------------------------------------------------------------------

Next ==
    \/ \E d \in Passable : GenerateBegin(d)
    \/ GenerateEnhance
    \/ GenerateManifest
    \/ GenerateCds
    \/ GenerateUi5Yaml
    \/ GenerateUi5LocalYaml
    \/ GenerateMockserverConfig
    \/ GenerateMockserverMiddleware
    \/ GenerateUi5MockYaml
    \/ GenerateLocalServiceFiles
    \/ GeneratePackageJson
    \/ GenerateWriteUi5LocalYaml
    \/ GenerateAnnotationXmlFiles
    \/ \E d \in Passable : RemoveBegin(d)
    \/ RemoveUi5Yaml
    \/ RemoveAnnotationPaths
    \/ RemoveUi5LocalYaml
    \/ RemoveUi5MockYaml
    \/ RemoveAnnotationXmlFiles
    \/ RemoveCds

Spec == Init /\ [][Next]_vars

mp == manifestPath(BasePath)

\* the calls of a caller that passes the editor it holds or none: a project
\* with ui5.yaml and ui5-mock.yaml side by side, with or without services
InitEditors ==
    /\ Init
    /\ exists(fs, join(BasePath, <<"ui5.yaml">>))
    /\ exists(fs, join(BasePath, <<"ui5-mock.yaml">>))
    /\ exists(fs, mp) /\ fs[mp].appId

NextEditors ==
    \/ \E d \in Passable : GenerateBegin(d)
    \/ \E d \in Passable : GenerateBeginFresh(d)
    \/ GenerateEnhance
    \/ GenerateManifest
    \/ GenerateCds
    \/ GenerateUi5Yaml
    \/ GenerateUi5LocalYaml
    \/ GenerateMockserverConfig
    \/ GenerateMockserverMiddleware
    \/ GenerateUi5MockYaml
    \/ GenerateLocalServiceFiles
    \/ GeneratePackageJson
    \/ GenerateWriteUi5LocalYaml
    \/ GenerateAnnotationXmlFiles
    \/ \E d \in Passable : RemoveBegin(d)
    \/ \E d \in Passable : RemoveBeginFresh(d)
    \/ RemoveUi5Yaml
    \/ RemoveAnnotationPaths
    \/ RemoveUi5LocalYaml
    \/ RemoveUi5MockYaml
    \/ RemoveAnnotationXmlFiles
    \/ RemoveCds

SpecEditors == InitEditors /\ [][NextEditors]_vars

-----------------------------------------------------------------------------
(* Properties                                                              *)


\* the YAML files of the project, wherever findProjectFiles can find them
YamlFiles(f) == {p \in DOMAIN f : f[p].kind = "yaml"}

\* the files the synchronizers keep in step: the manifest and the YAML files
Synced(f) == {p \in DOMAIN f : f[p].kind \in {"manifest", "yaml"}}
SameSynced(f, g) == Synced(f) = Synced(g) /\ \A p \in Synced(f) : f[p] = g[p]

\* no two entries of the list agree on the field
Unique(list, field) ==
    \A i, j \in DOMAIN list : list[i][field] = list[j][field] => i = j

NoDuplicates(f) ==
    \A p \in YamlFiles(f) :
        /\ Unique(f[p].doc.backend, "path")
        /\ Unique(f[p].doc.services, "serviceName")
        /\ Unique(f[p].doc.annotations, "urlPath")

\* two generate calls in a row, both completed
TwoGenerates ==
    /\ pc = "idle" /\ op = "generate" /\ error = None
    /\ last.op = "generate" /\ last.error = None

\* C1: generate on a project without webapp/manifest.json is rejected with
\* the required-file-not-found error and no file is created or changed
C1_NoManifestAborts ==
    (op = "generate" /\ ~exists(pre, mp))
        => (pc = "idle" /\ error = "requiredProjectFileNotFound" /\ fs = pre)

C1_Witness ==
    /\ op = "generate" /\ pc = "idle" /\ ~exists(pre, mp)
    /\ exists(pre, join(BasePath, <<"ui5.yaml">>))
    /\ arg.metadata # None

\* C2: generate on a manifest without sap.app.id is rejected with the
\* required-property-not-found error: the call stops at the manifest step
\* and no file is created or changed
C2_NoAppIdAborts ==
    (op = "generate" /\ exists(pre, mp) /\ ~pre[mp].appId)
        => /\ fs = pre
           /\ pc \in {"enhanceData", "updateManifest", "idle"}
           /\ (pc = "idle" => error = "requiredProjectPropertyNotFound")

C2_Witness ==
    /\ op = "generate" /\ pc = "idle" /\ exists(pre, mp) /\ ~pre[mp].appId
    /\ exists(pre, join(BasePath, <<"ui5.yaml">>))
    /\ arg.metadata # None

\* C3 as stated: a second generate with the same descriptor leaves the
\* manifest and the YAML files as the first call left them
C3_Original ==
    (TwoGenerates /\ (arg = last.arg \/ arg = last.service)) => SameSynced(fs, pre)

\* C3: a second generate leaves the manifest and the YAML files as the
\* first call left them, and duplicates no backend, mock service or mock
\* annotation entry, when it is given the descriptor object the first call
\* enhanced, or an equal descriptor whose name the Enhancer did not replace
C3_IdempotentUpsert ==
    (TwoGenerates /\ (arg = last.service
                       \/ (arg = last.arg /\ serviceFolder(last.service) = serviceFolder(last.arg))))
        => (SameSynced(fs, pre) /\ NoDuplicates(fs))

C3_Witness ==
    /\ TwoGenerates
    /\ arg = last.arg /\ serviceFolder(last.service) = serviceFolder(last.arg)
    /\ service.type = "edmx" /\ service.metadata # None /\ service.annotations.defined
    /\ paths.ui5Yaml # NoPath /\ paths.ui5LocalYaml # NoPath /\ paths.ui5MockYaml # NoPath
    /\ fs[paths.ui5Yaml].doc.backend # <<>>
    /\ fs[paths.ui5MockYaml].doc.services # <<>>

\* the manifest tables, the localUri values aside
NoLocalUri(ds) == [i \in DOMAIN ds |-> [ds[i] EXCEPT !.localUri = <<>>]]
SameTables(f, g) ==
    /\ NoLocalUri(f[mp].dataSources) = NoLocalUri(g[mp].dataSources)
    /\ f[mp].models = g[mp].models

\* a completed generate followed by a completed remove
GenerateThenRemove ==
    /\ pc = "idle" /\ op = "remove" /\ error = None
    /\ last.op = "generate" /\ last.error = None

\* before the generate the manifest had nothing under the keys the call wrote
FreshKeys ==
    /\ ~dsHas(last.pre[mp].dataSources, serviceFolder(last.service))
    /\ \A i \in DOMAIN last.service.annotations.items :
           ~dsHas(last.pre[mp].dataSources, annotationKey(last.service.annotations.items[i]))
    /\ last.service.model \notin DOMAIN last.pre[mp].models

\* C4 as stated: whatever the manifest was, generate followed by remove with
\* the same descriptor gives back its dataSources and models
C4_Original ==
    (GenerateThenRemove /\ (arg = last.arg \/ arg = last.service)) => SameTables(fs, last.pre)

\* C4: generate followed by remove gives back the dataSources (localUri
\* values aside) and the models of the manifest, provided the descriptor of
\* remove carries the key generate wrote the service under, and the manifest
\* had no entry under that key, the annotation keys and the model name that
\* generate wrote
C4_RoundTrip ==
    (GenerateThenRemove /\ arg.name = serviceFolder(last.service) /\ FreshKeys)
        => SameTables(fs, last.pre)

C4_Witness ==
    /\ GenerateThenRemove /\ arg = last.service /\ arg.name = serviceFolder(last.service) /\ FreshKeys
    /\ last.pre[mp].dataSources # <<>>
    /\ last.service.annotations.items # <<>>
    /\ last.service.type = "edmx"

\* the one OData service of a manifest
Lone(f) == CHOOSE k \in oDataKeys(f[mp].dataSources) : TRUE

\* a project with exactly one OData service whose files are in the flat layout
FlatLone(f) ==
    /\ exists(f, mp) /\ f[mp].appId
    /\ Cardinality(oDataKeys(f[mp].dataSources)) = 1
    /\ dsGet(f[mp].dataSources, Lone(f)).localUri = FlatMetadata
    /\ exists(f, join(Webapp, FlatMetadata))

\* the annotations of the lone service whose file lies flat under localService/
FlatAnnotations(f) ==
    {a \in Range(dsGet(f[mp].dataSources, Lone(f)).annotations) :
        /\ dsHas(f[mp].dataSources, a)
        /\ Len(dsGet(f[mp].dataSources, a).localUri) = 2
        /\ dsGet(f[mp].dataSources, a).localUri[1] = "localService"}

\* f is g with the files of g's lone service moved into its folder and its
\* localUri values rewritten; no flat file of that service is left
Migrated(f, g) ==
    LET k == Lone(g)
        new == f[mp].dataSources
        old == g[mp].dataSources
    IN /\ dsGet(new, k).localUri = namespacedMetadata(k)
       /\ ~exists(f, join(Webapp, FlatMetadata))
       /\ exists(f, join(Webapp, namespacedMetadata(k)))
       /\ f[join(Webapp, namespacedMetadata(k))] = g[join(Webapp, FlatMetadata)]
       /\ \A a \in FlatAnnotations(g) :
            LET from == dsGet(old, a).localUri
                to == <<"localService", k, from[2]>>
            IN /\ dsGet(new, a).localUri = to
               /\ ~exists(f, join(Webapp, from))
               /\ exists(g, join(Webapp, from))
                    => (exists(f, join(Webapp, to)) /\ f[join(Webapp, to)] = g[join(Webapp, from)])

\* the files under localService/<name>/ that f has and g has not, or has otherwise
FilesWritten(f, g, name) ==
    {p \in DOMAIN f :
        /\ Len(p) > Len(Webapp) + 2
        /\ SubSeq(p, 1, Len(Webapp) + 2) = Webapp \o <<"localService", name>>
        /\ (p \notin DOMAIN g \/ f[p] # g[p])}

\* generate of a second service on a project with one service in the flat layout
SecondService == op = "generate" /\ FlatLone(pre) /\ serviceFolder(arg) # Lone(pre)

\* C5: when generate adds a second service to a project with one service in
\* the flat layout, nothing is written before the manifest step, from the
\* manifest step on the first service's files lie in localService/<first>/
\* with its localUri values rewritten and no flat file left, and the second
\* service's files appear under localService/<second>/ only in that state
C5_LayoutMigration ==
    SecondService =>
        /\ pc \in {"enhanceData", "updateManifest"} => fs = pre
        /\ pc \notin {"enhanceData", "updateManifest"} => Migrated(fs, pre)
        /\ FilesWritten(fs, pre, serviceFolder(arg)) # {} => Migrated(fs, pre)
        /\ (pc = "idle" /\ error = None /\ service.type = "edmx" /\ service.metadata # None)
            => exists(fs, join(Webapp, namespacedMetadata(serviceFolder(arg))))

C5_Witness ==
    /\ SecondService /\ pc = "idle" /\ error = None
    /\ FlatAnnotations(pre) # {}
    /\ FilesWritten(fs, pre, serviceFolder(arg)) # {}
    /\ exists(fs, join(Webapp, <<"localService", Lone(pre), "SEPMRA_PROD_MAN.xml">>))

\* the YAML files the backend synchronizer is applied to in this call
BackendSynced ==
    IF paths.ui5Yaml = NoPath THEN {}
    ELSE {paths.ui5Yaml}
         \cup (IF paths.ui5LocalYaml # NoPath THEN {paths.ui5LocalYaml} ELSE {})
         \cup (IF service.metadata # None /\ paths.ui5MockYaml # NoPath THEN {paths.ui5MockYaml} ELSE {})

\* two completed EDMX generate calls with the same backend path and another url
SamePathOtherUrl ==
    /\ TwoGenerates
    /\ service.type = "edmx" /\ last.service.type = "edmx"
    /\ backendOf(service).path = backendOf(last.service).path
    /\ backendOf(service).url # backendOf(last.service).url

\* C6: after two generate calls with the same backend path and different
\* urls, every YAML file the second call synchronized has exactly one backend
\* entry for the path, with the url of the second call, and where the first
\* call left an entry for the path it is replaced at its position
C6_BackendMatchByPath ==
    SamePathOtherUrl =>
        \A p \in BackendSynced :
            LET new == fs[p].doc.backend
                old == pre[p].doc.backend
                b == backendOf(service)
            IN /\ Cardinality({i \in DOMAIN new : new[i].path = b.path}) = 1
               /\ \A i \in DOMAIN new : new[i].path = b.path => new[i].url = b.url
               /\ (\E i \in DOMAIN old : old[i].path = b.path)
                    => /\ Len(new) = Len(old)
                       /\ \A i \in DOMAIN old :
                            new[i] = IF old[i].path = b.path THEN b ELSE old[i]

C6_Witness ==
    /\ SamePathOtherUrl
    /\ Cardinality(BackendSynced) = 3
    /\ Len(fs[paths.ui5Yaml].doc.backend) = 2
    /\ fs[paths.ui5Yaml].doc.backend[1] = backendOf(service)
    /\ pre[paths.ui5Yaml].doc.backend[1] = backendOf(last.service)

\* the YAML files findProjectFiles found for this call
FoundYamls == {paths.ui5Yaml, paths.ui5LocalYaml, paths.ui5MockYaml} \ {NoPath}
FoundMockYamls == {paths.ui5LocalYaml, paths.ui5MockYaml} \ {NoPath}

CompletedEdmxRemove == op = "remove" /\ pc = "idle" /\ error = None /\ arg.type = "edmx"

\* C7: after a completed remove of an EDMX service no YAML file that was found
\* has a backend entry with the descriptor's url, and ui5-local.yaml and
\* ui5-mock.yaml have no mock service entry for the descriptor's path and no
\* mock annotation entry for one of its annotation url paths
C7_RemoveClearsYaml ==
    CompletedEdmxRemove =>
        /\ \A p \in FoundYamls :
            \A i \in DOMAIN fs[p].doc.backend : fs[p].doc.backend[i].url # arg.url
        /\ \A p \in FoundMockYamls :
            /\ \A i \in DOMAIN fs[p].doc.services :
                 stripSlash(fs[p].doc.services[i].servicePath) # stripSlash(arg.path)
            /\ \A i \in DOMAIN fs[p].doc.annotations :
                 fs[p].doc.annotations[i].urlPath
                    \notin Range(getEDMXAnnotationPaths(arg.annotations).paths)

C7_Witness ==
    /\ CompletedEdmxRemove
    /\ Cardinality(FoundYamls) = 3
    /\ \A p \in FoundYamls :
         \E i \in DOMAIN pre[p].doc.backend : pre[p].doc.backend[i].url = arg.url
    /\ \A p \in FoundMockYamls :
         /\ \E i \in DOMAIN pre[p].doc.services :
              stripSlash(pre[p].doc.services[i].servicePath) = stripSlash(arg.path)
         /\ \E i \in DOMAIN pre[p].doc.annotations :
              pre[p].doc.annotations[i].urlPath
                 \in Range(getEDMXAnnotationPaths(arg.annotations).paths)

\* the manifest, the YAML files and the payload files
Kept(f) == {p \in DOMAIN f : f[p].kind \in {"manifest", "yaml", "xml"}}

\* C8: a remove whose service name is not a key of the data-source table
\* leaves the manifest, the YAML files and the payload files identical,
\* whatever url, path and annotations the descriptor carries
C8_UnknownRemovalNoop ==
    (op = "remove" /\ exists(pre, mp) /\ ~dsHas(pre[mp].dataSources, arg.name))
        => (Kept(fs) = Kept(pre) /\ \A p \in Kept(pre) : fs[p] = pre[p])

\* C9: during and after a remove, a YAML file whose backend list had no entry
\* with the descriptor's url keeps its backend list
C9_OtherUrlKeepsBackends ==
    op = "remove" =>
        \A p \in YamlFiles(pre) :
            (\A i \in DOMAIN pre[p].doc.backend : pre[p].doc.backend[i].url # arg.url)
                => (exists(fs, p) /\ fs[p].doc.backend = pre[p].doc.backend)

C9_Witness ==
    /\ CompletedEdmxRemove
    /\ Cardinality(FoundYamls) = 3
    /\ \A p \in FoundYamls :
         /\ \A i \in DOMAIN pre[p].doc.backend : pre[p].doc.backend[i].url # arg.url
         /\ \E i \in DOMAIN fs[p].doc.backend :
              fs[p].doc.backend[i].path = backendPath(arg.path)

\* remove of a service the data-source table knows
KnownRemoval ==
    /\ op = "remove" /\ exists(pre, mp)
    /\ dsHas(pre[mp].dataSources, arg.name)
    /\ dsGet(pre[mp].dataSources, arg.name).type = "OData"

\* the annotation keys the removed service listed
Listed == Range(dsGet(pre[mp].dataSources, arg.name).annotations)

\* another OData service of the table lists the annotation
ReferencedElsewhere(a) ==
    \E i \in DOMAIN pre[mp].dataSources :
        /\ pre[mp].dataSources[i].type = "OData"
        /\ pre[mp].dataSources[i].key # arg.name
        /\ a \in Range(pre[mp].dataSources[i].annotations)

\* what every removal of a known service does, the listed annotations aside
RemovalFrame ==
    LET old == pre[mp].dataSources
        new == fs[mp].dataSources
    IN /\ ~dsHas(new, arg.name)
       /\ dsKeys(new) \subseteq dsKeys(old)
       /\ \A k \in dsKeys(new) : dsGet(new, k) = dsGet(old, k)
       /\ \A k \in dsKeys(old) \ (Listed \cup {arg.name}) : dsHas(new, k)
       /\ \A a \in Listed : ReferencedElsewhere(a) /\ dsHas(old, a) => dsHas(new, a)
       /\ DOMAIN fs[mp].models = {m \in DOMAIN pre[mp].models : pre[mp].models[m] # arg.name}
       /\ \A m \in DOMAIN fs[mp].models : fs[mp].models[m] = pre[mp].models[m]
       /\ \A i \in DOMAIN new :
            new[i].type = "OData" =>
                \A a \in Range(new[i].annotations) \ {arg.name} : dsHas(old, a) => dsHas(new, a)

NamelessOnEmpty ==
    /\ op = "generate" /\ arg.name = None
    /\ exists(pre, mp) /\ pre[mp].appId /\ pre[mp].dataSources = <<>>
    /\ pc \notin {"enhanceData", "updateManifest"}

\* C11: generate of a descriptor without name on a manifest with an empty
\* data-source table writes an OData entry keyed mainService whose uri is the
\* descriptor's path with a trailing '/', with an empty annotations list when
\* the descriptor has no annotations
C11_NamingDefault ==
    NamelessOnEmpty =>
        /\ dsHas(fs[mp].dataSources, "mainService")
        /\ dsGet(fs[mp].dataSources, "mainService").type = "OData"
        /\ dsGet(fs[mp].dataSources, "mainService").uri = withTrailingSlash(arg.path)
        /\ endsWithSlash(dsGet(fs[mp].dataSources, "mainService").uri)
        /\ ~arg.annotations.defined => dsGet(fs[mp].dataSources, "mainService").annotations = <<>>

C11_Witness ==
    /\ NamelessOnEmpty /\ pc = "idle" /\ error = None
    /\ arg.path = PathA
    /\ dsGet(fs[mp].dataSources, "mainService").uri = <<"", "sap", "a", "">>

\* a generate call past its enhanceData step
EnhancerRan == op = "generate" /\ exists(pre, mp) /\ pc # "enhanceData"

\* C12 as stated: after the Enhancer has run the descriptor's name is never
\* absent and its path ends in '/', whatever the manifest holds
C12_Original ==
    EnhancerRan => (service.name # None /\ endsWithSlash(service.path))

\* C12: after the Enhancer has run the descriptor's path ends in '/' (an
\* absent path has become '/'), and its name is absent exactly when the
\* caller gave none and the manifest's data-source table is not empty
C12_EnhancementInvariant ==
    EnhancerRan =>
        /\ endsWithSlash(service.path)
        /\ arg.path = NoPath => service.path = <<"", "">>
        /\ service.name = None <=> (arg.name = None /\ pre[mp].dataSources # <<>>)
        /\ pre[mp].dataSources = <<>> => service.name = DEFAULT_DATASOURCE_NAME

C12_Witness ==
    /\ EnhancerRan /\ pc = "idle" /\ error = None
    /\ arg.name = None /\ arg.path = NoPath
    /\ pre[mp].dataSources # <<>>
    /\ service.name = None /\ service.path = <<"", "">>

\* the key of the i-th annotation as the caller passed it and as enhanced
GivenKey(i) == annotationKey(arg.annotations.items[i])
EnhancedKey(i) == annotationKey(service.annotations.items[i])

\* the key is the service's name, or a key of the manifest that is not one
\* of the annotations the service already lists
Collides(k) ==
    \/ k = serviceFolder(service)
    \/ /\ dsHas(pre[mp].dataSources, k)
       /\ ~(/\ dsHas(pre[mp].dataSources, serviceFolder(service))
            /\ k \in Range(dsGet(pre[mp].dataSources, serviceFolder(service)).annotations))

\* a generate call that repeats the one before it, past its enhanceData step
RepeatedEnhance ==
    /\ EnhancerRan /\ last.op = "generate" /\ last.error = None
    /\ arg = last.arg \/ arg = last.service
    /\ serviceFolder(service) = serviceFolder(last.service)

SameOfKind(f, g, kinds) ==
    /\ {p \in DOMAIN f : f[p].kind \in kinds} = {p \in DOMAIN g : g[p].kind \in kinds}
    /\ \A p \in DOMAIN f : f[p].kind \in kinds => f[p] = g[p]

\* a call for a CDS-typed service
CdsCall == op \in {"generate", "remove"} /\ arg.type = "cds"

NoUi5Yaml == op = "generate" /\ findProjectFiles(BasePath, pre).ui5Yaml = NoPath

\* C15: when no ui5.yaml is found, generate changes and creates no YAML file
\* and no package.json, whether or not they exist; only the manifest and the
\* payload files change
C15_Ui5YamlRequired ==
    NoUi5Yaml =>
        /\ SameOfKind(fs, pre, {"yaml", "json"})
        /\ \A p \in DOMAIN fs \ DOMAIN pre : fs[p].kind \in {"xml", "cds"}
        /\ \A p \in DOMAIN pre : (p \notin DOMAIN fs \/ fs[p] # pre[p])
                                    => pre[p].kind \in {"manifest", "xml", "cds"}

C15_Witness ==
    /\ NoUi5Yaml /\ pc = "idle" /\ error = None
    /\ exists(pre, join(BasePath, <<"ui5-local.yaml">>))
    /\ exists(pre, join(BasePath, <<"ui5-mock.yaml">>))
    /\ exists(pre, join(BasePath, <<"package.json">>))
    /\ service.type = "edmx" /\ service.metadata # None
    /\ fs[mp] # pre[mp]
    /\ FilesWritten(fs, pre, serviceFolder(service)) # {}

\* the call is an EDMX generate that found a package.json and a ui5.yaml
MarksPackage ==
    /\ service.type = "edmx"
    /\ paths.packageJson # NoPath /\ paths.ui5Yaml # NoPath

CompletedGenerate == op = "generate" /\ pc = "idle" /\ error = None

\* C16: a completed generate has marked the package.json it found when the
\* service is EDMX and a ui5.yaml was found too, and has changed no
\* package.json otherwise; no package.json but the one found ever changes,
\* and a second generate with the same descriptor leaves it as the first did
C16_PackageJsonMarked ==
    /\ CompletedGenerate =>
         IF MarksPackage
         THEN /\ fs[paths.packageJson].sapux
              /\ \A p \in DOMAIN pre : (pre[p].kind = "json" /\ p # paths.packageJson)
                                          => (exists(fs, p) /\ fs[p] = pre[p])
         ELSE SameOfKind(fs, pre, {"json"})
    /\ op = "generate" =>
         \A p \in DOMAIN pre :
            pre[p].kind = "json" =>
                /\ exists(fs, p)
                /\ fs[p] # pre[p] => (p = paths.packageJson /\ MarksPackage /\ fs[p].sapux)
    /\ (TwoGenerates /\ (arg = last.arg \/ arg = last.service))
         => SameOfKind(fs, pre, {"json"})

C16_Witness ==
    /\ TwoGenerates /\ arg = last.arg /\ MarksPackage
    /\ fs[paths.packageJson].sapux /\ fs[paths.packageJson].mockserver
    /\ ~last.pre[paths.packageJson].sapux

\* the call was rejected before it reached its YAML steps
RejectedEarly == error \in {"requiredProjectFileNotFound", "requiredProjectPropertyNotFound"}

\* an EDMX generate past the step that extends the backend list of ui5.yaml,
\* and past the one for ui5-local.yaml
Ui5YamlExtended ==
    /\ op = "generate" /\ service.type = "edmx" /\ ~RejectedEarly
    /\ paths.ui5Yaml # NoPath
    /\ pc \notin {"enhanceData", "updateManifest", "ui5Yaml"}
Ui5LocalYamlExtended ==
    /\ Ui5YamlExtended /\ paths.ui5LocalYaml # NoPath
    /\ pre[paths.ui5Yaml].doc.proxy # "bad"
    /\ pc # "ui5LocalYaml"

\* what extendBackendMiddleware has made of the file p of the call
Extended(p) ==
    LET was == pre[p].doc
        now == fs[p].doc
        b == backendOf(service)
    IN CASE was.proxy \in {"noNode", "noItem"} ->
                now.proxy = "ok" /\ now.backend = <<b>>
         [] was.proxy = "bad" ->
                pc = "idle" /\ error = "yamlError" /\ fs[p] = pre[p]
         [] OTHER ->
                now.proxy = "ok" /\ now.backend = upsertBy(was.backend, "path", b)

\* C17: when the proxy middleware block of ui5.yaml or ui5-local.yaml is
\* absent, generate creates it with exactly the one backend entry and writes
\* the file; when adding the entry fails otherwise, the call is rejected with
\* that error and the file is left unwritten
C17_BackendErrorHandling ==
    /\ Ui5YamlExtended => Extended(paths.ui5Yaml)
    /\ Ui5LocalYamlExtended => Extended(paths.ui5LocalYaml)

\* the recovery happens: a ui5-local.yaml without the block gets it
C17_Recovered ==
    /\ Ui5LocalYamlExtended /\ pc = "idle" /\ error = None
    /\ pre[paths.ui5LocalYaml].doc.proxy = "noNode"
    /\ fs[paths.ui5LocalYaml].doc.backend = <<backendOf(service)>>

C17_Witness ==
    /\ Ui5LocalYamlExtended
    /\ pre[paths.ui5LocalYaml].doc.proxy = "bad"
    /\ error = "yamlError"
    /\ fs[paths.ui5Yaml] # pre[paths.ui5Yaml]

\* remove of an EDMX service whose descriptor carries no annotations, ended
RemovedWithoutAnnotations ==
    /\ op = "remove" /\ pc = "idle"
    /\ arg.type = "edmx" /\ ~arg.annotations.defined

\* C18: remove of an EDMX service whose descriptor carries no annotations
\* ends without an error, the service is gone from the manifest, and no YAML
\* file that was found keeps a backend entry with the descriptor's url or a
\* mock service entry for its path
C18_AbsentAnnotationsNoError ==
    RemovedWithoutAnnotations =>
        /\ error = None
        /\ exists(fs, mp) => ~dsHas(fs[mp].dataSources, arg.name)
        /\ \A p \in FoundYamls :
             \A i \in DOMAIN fs[p].doc.backend : fs[p].doc.backend[i].url # arg.url
        /\ \A p \in FoundMockYamls :
             \A i \in DOMAIN fs[p].doc.services :
                stripSlash(fs[p].doc.services[i].servicePath) # stripSlash(arg.path)

\* basePath and its ancestor directories up to the filesystem root
Ancestors == {SubSeq(BasePath, 1, k) : k \in 1..Len(BasePath)}

\* the ancestors that hold a file of the name in the file system f
Holders(f, name) == {d \in Ancestors : exists(f, d \o <<name>>)}

\* the copy in the deepest ancestor that holds one, or nothing
Closest(f, name) ==
    IF Holders(f, name) = {} THEN NoPath
    ELSE (CHOOSE d \in Holders(f, name) : \A e \in Holders(f, name) : Len(e) <= Len(d)) \o <<name>>

\* C19: for each of the four file kinds findProjectFiles returns the copy in
\* the deepest directory among basePath and its ancestors that holds one, or
\* nothing when none does, whatever was found for the other kinds
C19_ClosestWins ==
    op # None =>
        /\ paths.packageJson = Closest(pre, "package.json")
        /\ paths.ui5Yaml = Closest(pre, "ui5.yaml")
        /\ paths.ui5LocalYaml = Closest(pre, "ui5-local.yaml")
        /\ paths.ui5MockYaml = Closest(pre, "ui5-mock.yaml")

FileNames == {"package.json", "ui5.yaml", "ui5-local.yaml", "ui5-mock.yaml"}

\* the directory the k-th iteration of the discovery loop looks into
Probed(k) == SubSeq(BasePath, 1, Len(BasePath) - k + 1)

\* every one of the four files is in one of the first k directories probed
FoundWithin(f, k) ==
    \A name \in FileNames : \E j \in 1..k : exists(f, join(Probed(j), <<name>>))

\* C20: findProjectFiles makes at most one loop iteration per segment of
\* basePath (the parts of basePath.split(sep)), and no iteration after the
\* one in which the last of the four files was found
C20_DiscoveryBounded ==
    op # None =>
        /\ iterations <= Len(BasePath)
        /\ \A k \in 1..Len(BasePath) : FoundWithin(pre, k) => iterations <= k

\* the loop stopped after two of three possible iterations, all four found
C20_Witness ==
    /\ op # None
    /\ iterations = 2 /\ Len(BasePath) = 3
    /\ allFound(paths) /\ ~FoundWithin(pre, 1)

\* a generate of an EDMX service with metadata that ran to its end
GeneratedWithMetadata ==
    /\ op = "generate" /\ pc = "idle" /\ error = None
    /\ service.type = "edmx" /\ service.metadata # None

\* the payload is in the file the data source `key` names as its localUri
AtLocalUri(key, payload) ==
    /\ dsHas(fs[mp].dataSources, key)
    /\ exists(fs, join(Webapp, dsGet(fs[mp].dataSources, key).localUri))
    /\ fs[join(Webapp, dsGet(fs[mp].dataSources, key).localUri)] = prettifyXml(payload)

\* C21: after generate of an EDMX service with metadata the metadata file is
\* at the location the manifest records as the service's localUri, and each
\* annotation file at the localUri of its annotation entry
C21_FilesWhereManifestSays ==
    GeneratedWithMetadata =>
        /\ AtLocalUri(serviceFolder(service), service.metadata)
        /\ \A i \in DOMAIN service.annotations.items :
              service.annotations.items[i].xml # None
                 => AtLocalUri(annotationKey(service.annotations.items[i]),
                               service.annotations.items[i].xml)

\* a completed generate of an EDMX service with metadata on a manifest
\* without data sources
FirstServiceGenerated ==
    /\ GeneratedWithMetadata
    /\ exists(pre, mp) /\ pre[mp].dataSources = <<>>

\* the files of f in the folder localService/<name> of the webapp
InServiceFolder(f, name) ==
    {p \in DOMAIN f : /\ Len(p) > Len(Webapp) + 2
                      /\ SubSeq(p, 1, Len(Webapp) + 2) = Webapp \o <<"localService", name>>}

\* C22: the metadata of the first service of a project without data sources
\* is written to localService/mainService/metadata.xml whatever name the
\* descriptor supplies, and nothing is written under localService/<that name>/
C22_FirstServiceFolder ==
    FirstServiceGenerated =>
        /\ exists(fs, join(Webapp, namespacedMetadata(DEFAULT_DATASOURCE_NAME)))
        /\ fs[join(Webapp, namespacedMetadata(DEFAULT_DATASOURCE_NAME))] = prettifyXml(arg.metadata)
        /\ arg.name \notin {None, DEFAULT_DATASOURCE_NAME}
              => \A p \in InServiceFolder(fs, arg.name) : exists(pre, p) /\ pre[p] = fs[p]

\* a first service passed with the name svcB, its annotation file written too
C22_Witness ==
    /\ FirstServiceGenerated
    /\ arg.name = "svcB"
    /\ InServiceFolder(fs, "svcB") = {}
    /\ Cardinality(InServiceFolder(fs, DEFAULT_DATASOURCE_NAME)) = 2

\* C23: a call works on and returns the editor the caller supplied, which
\* shows it every change the calls before made in it; a new editor is made
\* exactly when none is supplied, and a call keeps its editor to its end
C23_EditorShared ==
    [][/\ calls' = calls => editor' = editor
       /\ calls' # calls =>
            IF given'
            THEN editor' = editor /\ pre' = fs
            ELSE editor' # editor /\ pre' = disk]_vars

\* the first call made its own editor, the second was given that editor,
\* found the changes of the first in it and returned it
C23_Witness ==
    /\ calls = 2 /\ pc = "idle" /\ error = None
    /\ given /\ editor = 1
    /\ pre # disk /\ fs # pre

CompletedEdmxGenerate == CompletedGenerate /\ service.type = "edmx"

\* ui5.yaml and ui5-local.yaml, as far as the call found them
BackendYamls == {paths.ui5Yaml, paths.ui5LocalYaml} \ {NoPath}

HasBackend(f, p, b) == \E i \in DOMAIN f[p].doc.backend : f[p].doc.backend[i] = b

\* the mock-server block of the YAML file p is what it was before the call
SameMockBlock(p) ==
    /\ fs[p].doc.mock = pre[p].doc.mock
    /\ fs[p].doc.services = pre[p].doc.services
    /\ fs[p].doc.annotations = pre[p].doc.annotations

\* C24 as stated: a descriptor without metadata leaves the backend lists of
\* ui5.yaml and ui5-local.yaml as they were
C24_Original ==
    (CompletedEdmxGenerate /\ service.metadata = None) =>
        \A p \in BackendYamls : fs[p].doc.backend = pre[p].doc.backend

\* C24: a completed EDMX generate that found a ui5.yaml has put the service's
\* backend entry into ui5.yaml and the ui5-local.yaml it found, with or
\* without metadata; only the mock-server side depends on metadata: without
\* it no mock-server block changes and ui5-mock.yaml gets no backend entry,
\* with it ui5-mock.yaml gets the entry too; without a ui5.yaml no YAML file
\* changes at all
C24_BackendNotGated ==
    CompletedEdmxGenerate =>
        IF paths.ui5Yaml = NoPath THEN SameOfKind(fs, pre, {"yaml"})
        ELSE /\ \A p \in BackendYamls : HasBackend(fs, p, backendOf(service))
             /\ service.metadata = None =>
                  /\ YamlFiles(fs) = YamlFiles(pre)
                  /\ \A p \in YamlFiles(pre) : SameMockBlock(p)
                  /\ \A p \in YamlFiles(pre) \ BackendYamls : fs[p] = pre[p]
             /\ (service.metadata # None /\ paths.ui5MockYaml # NoPath)
                  => HasBackend(fs, paths.ui5MockYaml, backendOf(service))

\* a service without metadata got its backend entry into both files, the
\* ui5-mock.yaml that was found is untouched
C24_Witness ==
    /\ CompletedEdmxGenerate /\ service.metadata = None
    /\ Cardinality(BackendYamls) = 2 /\ paths.ui5MockYaml # NoPath
    /\ \A p \in BackendYamls :
          /\ ~HasBackend(pre, p, backendOf(service))
          /\ HasBackend(fs, p, backendOf(service))
    /\ fs[paths.ui5MockYaml] = pre[paths.ui5MockYaml]

\* a generate call for a descriptor without metadata, at any of its steps
GenerateWithoutMetadata == op = "generate" /\ arg.metadata = None

\* the file p is as it was when the call started, absent included
Untouched(p) == IF exists(pre, p) THEN exists(fs, p) /\ fs[p] = pre[p] ELSE ~exists(fs, p)

MockYamlNames == {p \in DOMAIN fs \cup DOMAIN pre : p[Len(p)] = "ui5-mock.yaml"}

\* C25: a generate call for a descriptor without metadata never writes the
\* flat localService/metadata.xml nor the metadata file of the service's own
\* folder, creates no ui5-mock.yaml and changes none
C25_NoMetadataNoMock ==
    GenerateWithoutMetadata =>
        /\ exists(fs, join(Webapp, FlatMetadata))
              => Untouched(join(Webapp, FlatMetadata))
        /\ Untouched(join(Webapp, namespacedMetadata(serviceFolder(service))))
        /\ \A p \in MockYamlNames : Untouched(p)

\* the call ran to its end on a project with ui5.yaml and ui5-mock.yaml, the
\* service is in the manifest and has no metadata file
C25_Witness ==
    /\ GenerateWithoutMetadata /\ CompletedEdmxGenerate
    /\ paths.ui5Yaml # NoPath /\ paths.ui5MockYaml # NoPath
    /\ dsHas(fs[mp].dataSources, serviceFolder(service))
    /\ ~dsHas(pre[mp].dataSources, serviceFolder(service))
    /\ ~exists(fs, join(Webapp, namespacedMetadata(serviceFolder(service))))

\* a completed generate of an EDMX service with metadata that found ui5.yaml
\* and ui5-local.yaml
GeneratedWithBothYamls ==
    /\ CompletedEdmxGenerate /\ service.metadata # None
    /\ paths.ui5Yaml # NoPath /\ paths.ui5LocalYaml # NoPath

\* the ui5-mock.yaml beside ui5.yaml, which the mock-server block is read from
MockYamlBeside == join(dirname(paths.ui5Yaml), <<"ui5-mock.yaml">>)

\* C26: after a completed generate of an EDMX service with metadata that
\* found ui5.yaml and ui5-local.yaml, ui5-local.yaml holds the service's
\* backend entry and the mock-server block of the ui5-mock.yaml beside ui5.yaml
C26_LocalYamlKeepsBoth ==
    GeneratedWithBothYamls =>
        /\ HasBackend(fs, paths.ui5LocalYaml, backendOf(service))
        /\ fs[MockYamlBeside].doc.mock =>
              /\ fs[paths.ui5LocalYaml].doc.mock
              /\ fs[paths.ui5LocalYaml].doc.services = fs[MockYamlBeside].doc.services
              /\ fs[paths.ui5LocalYaml].doc.annotations = fs[MockYamlBeside].doc.annotations

\* an empty ui5-local.yaml ends with the backend entry and a mock-server
\* block that names the service
C26_Witness ==
    /\ GeneratedWithBothYamls
    /\ pre[paths.ui5LocalYaml].doc.backend = <<>> /\ ~pre[paths.ui5LocalYaml].doc.mock
    /\ fs[paths.ui5LocalYaml].doc.backend = <<backendOf(service)>>
    /\ fs[paths.ui5LocalYaml].doc.mock
    /\ \E i \in DOMAIN fs[paths.ui5LocalYaml].doc.services :
          fs[paths.ui5LocalYaml].doc.services[i].serviceName = serviceFolder(service)

\* an EDMX generate past the step that reads the mock-server block for
\* ui5-local.yaml
MockBlockRead ==
    /\ op = "generate" /\ service.type = "edmx" /\ error = None
    /\ service.metadata # None /\ paths.ui5Yaml # NoPath
    /\ pc \in {"ui5MockYaml", "localServiceFiles", "packageJson", "writeUi5LocalYaml",
               "annotationXmlFiles", "idle"}

\* C27: the mock-server block for ui5-local.yaml is read from the
\* ui5-mock.yaml that discovery found, the file that gets the backend entry,
\* at whatever levels ui5.yaml and ui5-mock.yaml were found
C27_MockBlockFromFoundFile ==
    (MockBlockRead /\ paths.ui5MockYaml # NoPath) => MockYamlBeside = paths.ui5MockYaml

\* a call that was rejected
FailedCall == op # None /\ pc = "idle" /\ error # None

\* C28 as stated: after a rejected call the manifest and the YAML files hold
\* what they held before the call
C28_Original == FailedCall => SameSynced(fs, pre)

\* what remove has written when getEDMXAnnotationPaths throws
RemovedUpToUi5Yaml ==
    LET f1 == deleteServiceFromManifest(BasePath, arg.name, pre)
    IN IF paths.ui5Yaml = NoPath THEN f1
       ELSE write(f1, paths.ui5Yaml,
                  toString(removeBackendFromFioriToolsProxydMiddleware(
                               newInstance(pre[paths.ui5Yaml]), arg.url)))

\* C28: only a call rejected for a missing manifest or a missing sap.app.id
\* leaves the editor as it was; a call rejected later leaves in the editor
\* what it wrote before the error: remove the manifest without the service
\* and the rewritten ui5.yaml, generate the merged manifest and the ui5.yaml
\* with the backend entry unless ui5.yaml itself was the file that failed
C28_NoRollback ==
    FailedCall =>
        CASE RejectedEarly -> fs = pre
          [] op = "remove" /\ ~RejectedEarly -> fs = RemovedUpToUi5Yaml
          [] OTHER ->
                /\ fs[mp] = updateManifest(BasePath, service, pre).fs[mp]
                /\ Extended(paths.ui5Yaml)

\* a remove rejected after it changed the manifest and ui5.yaml
C28_Witness ==
    /\ FailedCall /\ op = "remove"
    /\ paths.ui5Yaml # NoPath /\ paths.ui5LocalYaml # NoPath
    /\ exists(pre, mp)
    /\ fs[mp] # pre[mp]
    /\ fs[paths.ui5Yaml] # pre[paths.ui5Yaml]
    /\ fs[paths.ui5LocalYaml] = pre[paths.ui5LocalYaml]

\* a generate rejected after it changed the manifest and ui5.yaml
C28_GenerateFailed ==
    /\ FailedCall /\ op = "generate" /\ ~RejectedEarly
    /\ fs[mp] # pre[mp]
    /\ fs[paths.ui5Yaml] # pre[paths.ui5Yaml]

\* the backend paths of the services that are in the manifest after the call
\* and are not the removed one
RemainingBackendPaths ==
    IF ~exists(fs, mp) THEN {}
    ELSE {backendPath(fs[mp].dataSources[i].uri) :
             i \in {j \in DOMAIN fs[mp].dataSources :
                        /\ fs[mp].dataSources[j].type = "OData"
                        /\ fs[mp].dataSources[j].key # arg.name}}

\* the backend entries of the file p before the call that a remaining
\* service relies on
ReliedOn(p) ==
    {pre[p].doc.backend[i] : i \in {j \in DOMAIN pre[p].doc.backend :
                                        pre[p].doc.backend[j].path \in RemainingBackendPaths}}

\* C29 as stated: after remove of a service every backend entry a remaining
\* service had in a YAML file is still there, a shared url included
C29_Original ==
    CompletedEdmxRemove =>
        \A p \in FoundYamls : \A e \in ReliedOn(p) : HasBackend(fs, p, e)

\* C29: after remove of a service, a backend entry a remaining service had
\* in a found YAML file is still there exactly when its url is not the
\* removed descriptor's url: an entry with the same url is deleted with it
C29_SharedUrlRemoved ==
    CompletedEdmxRemove =>
        \A p \in FoundYamls : \A e \in ReliedOn(p) : HasBackend(fs, p, e) <=> e.url # arg.url

\* a remaining service lost its backend entry in all three files, another
\* url's entry was kept in ui5.yaml
C29_Witness ==
    /\ CompletedEdmxRemove
    /\ Cardinality(FoundYamls) = 3
    /\ \A p \in FoundYamls : \E e \in ReliedOn(p) : e.url = arg.url /\ ~HasBackend(fs, p, e)
    /\ \E e \in ReliedOn(paths.ui5Yaml) : HasBackend(fs, paths.ui5Yaml, e)

\* what remove makes of the mock-side YAML file p, from that file alone
RemovedFrom(p) ==
    toString(removeFromYaml(newInstance(pre[p]), arg, getEDMXAnnotationPaths(arg.annotations).paths))

\* C30: in remove the manifest deletion is done before any YAML step; a
\* completed remove of an EDMX service has rewritten each of ui5.yaml,
\* ui5-local.yaml and ui5-mock.yaml it found from that file's own content,
\* whichever of the other two exist, and has created or changed no other
\* YAML file; which files exist never makes the call fail
C30_RemoveFilesIndependent ==
    /\ (op = "remove" /\ pc \in {"removeUi5Yaml", "removeCds"})
          => fs = deleteServiceFromManifest(BasePath, arg.name, pre)
    /\ CompletedEdmxRemove =>
          /\ paths.ui5Yaml # NoPath =>
                fs[paths.ui5Yaml] = toString(removeBackendFromFioriToolsProxydMiddleware(
                                                 newInstance(pre[paths.ui5Yaml]), arg.url))
          /\ \A p \in FoundMockYamls : fs[p] = RemovedFrom(p)
          /\ YamlFiles(fs) = YamlFiles(pre)
          /\ \A p \in YamlFiles(pre) \ FoundYamls : fs[p] = pre[p]
    /\ (op = "remove" /\ pc = "idle")
          => (error = None <=> ~(arg.type = "edmx" /\ ~arg.annotations.defined))

\* without a ui5.yaml, ui5-local.yaml and ui5-mock.yaml were both rewritten
C30_Witness ==
    /\ CompletedEdmxRemove
    /\ paths.ui5Yaml = NoPath
    /\ Cardinality(FoundMockYamls) = 2
    /\ \A p \in FoundMockYamls : fs[p] # pre[p]

\* the locations one run of the loop body hands to fs.exists: a kind that is
\* already recorded is not looked for again
consulted(files, path) ==
    {join(path, <<"package.json">>) : x \in IF files.packageJson = NoPath THEN {1} ELSE {}}
    \cup {join(path, <<"ui5.yaml">>) : x \in IF files.ui5Yaml = NoPath THEN {1} ELSE {}}
    \cup {join(path, <<"ui5-local.yaml">>) : x \in IF files.ui5LocalYaml = NoPath THEN {1} ELSE {}}
    \cup {join(path, <<"ui5-mock.yaml">>) : x \in IF files.ui5MockYaml = NoPath THEN {1} ELSE {}}

RECURSIVE findProbes(_, _, _)
\* every location the while loop of findProjectFiles hands to fs.exists
findProbes(f, parts, files) ==
    IF Len(parts) = 0 \/ allFound(files) THEN {}
    ELSE consulted(files, parts)
         \cup findProbes(f, SubSeq(parts, 1, Len(parts) - 1),
                  [packageJson  |-> probe(f, files.packageJson, parts, "package.json"),
                   ui5Yaml      |-> probe(f, files.ui5Yaml, parts, "ui5.yaml"),
                   ui5LocalYaml |-> probe(f, files.ui5LocalYaml, parts, "ui5-local.yaml"),
                   ui5MockYaml  |-> probe(f, files.ui5MockYaml, parts, "ui5-mock.yaml")])

\* the location is one of the four file names directly inside basePath or
\* one of its ancestors, the filesystem root included
InAncestorChain(p) ==
    /\ Len(p) >= 2
    /\ p[Len(p)] \in FileNames
    /\ SubSeq(p, 1, Len(p) - 1) \in Ancestors

\* the locations findProjectFiles returned
Returned == {paths.packageJson, paths.ui5Yaml, paths.ui5LocalYaml, paths.ui5MockYaml} \ {NoPath}

\* C31: every location findProjectFiles hands to fs.exists, and every
\* location it returns, lies directly inside basePath or one of its ancestor
\* directories up to the filesystem root; no path relative to the working
\* directory is consulted or returned
C31_ProbesInAncestorChain ==
    op # None =>
        /\ \A p \in findProbes(pre, BasePath, NoFiles) : InAncestorChain(p)
        /\ \A p \in Returned : InAncestorChain(p)

\* the same statement for the calls whose loop stops before its last
\* iteration: there every probe is inside the chain
C31_EarlyStopInChain ==
    (op # None /\ iterations < Len(BasePath)) =>
        /\ \A p \in findProbes(pre, BasePath, NoFiles) : InAncestorChain(p)
        /\ \A p \in Returned : InAncestorChain(p)

\* a call got a file of the working directory back from the discovery
C31_CwdReturned ==
    op # None /\ \E p \in Returned : ~InAncestorChain(p)

====
